---- MODULE Spec2Model ----
(***************************************************************************)
(* Verification model of the Unity documentation MCP server:               *)
(*   - the FTS5 query sanitizer and DocumentSearch.search                  *)
(*     (src/search/index.ts),                                              *)
(*   - the documents table, its external-content FTS5 index and the        *)
(*     triggers that maintain it (src/database/schema.ts),                 *)
(*   - the read_unity_doc pagination and extractSections (src/server.ts).  *)
(* Strings are sequences of one-character strings, so that the regular     *)
(* expression passes of the sanitizer and String.substring act on          *)
(* characters.                                                             *)
(***************************************************************************)
EXTENDS Integers, Sequences, FiniteSets, TLC

VARIABLES
    \* ---- sanitizer harness -------------------------------------------
    query,          \* the raw query string given to sanitizeSearchQuery
    sanitized,      \* sanitizeSearchQuery(query)
    resanitized,    \* sanitizeSearchQuery(sanitized)
    spc,            \* "input" | "sanitized" | "resanitized"
    \* ---- read_unity_doc pagination -----------------------------------
    pgContent,      \* doc.content of the document being read
    pgOffset,       \* the offset argument of the current call
    pgLimit,        \* the limit argument of the current call
    pgPage,         \* what the last read_unity_doc call reported
    pgAcc,          \* the chunks a paging client has concatenated so far
    pgPc,           \* "idle" | "single" | "reading" | "done"
    \* ---- extractSections ---------------------------------------------
    dom,            \* the children of <body> of the parsed doc.html
    sections,       \* the DocumentSection[] returned by extractSections
    secPc,          \* "loaded" | "extracted"
    \* ---- document store ----------------------------------------------
    documents,      \* the rows of the documents table
    fts,            \* the documents_fts index: <<rowid, column, token>>
    idx,            \* the version indexer (index-docs main): pc, version, todo
    pkgStats,       \* IndexingStats of the last package indexing run
    lastRun,        \* the last version indexing run that ended, and how
    \* ---- DocumentSearch.search ---------------------------------------
    dbOpen,         \* DatabaseConnection.db !== null in the server process
    lastSearch,     \* the last search call: its options and its outcome
    \* ---- tool calls (CallToolRequestSchema handler) -------------------
    disk,           \* the paths that exist under data/extracted/unity-6000.1
    toolCall,       \* the last tool call: its request and its response
    \* ---- created_at / updated_at of the documents table ----------------
    clock,          \* CURRENT_TIMESTAMP / new Date(), in ticks
    stamps,         \* the rows of documents: id, created_at, updated_at
    born,           \* per stored id: when its row was inserted, last written
    \* ---- DocumentSearch.findSimilar -----------------------------------
    lastSimilar,    \* the last findSimilar call: its arguments and outcome
    \* ---- DatabaseConnection and Migration ------------------------------
    schema,         \* the database file: schema_version rows, tables, columns
    connLog,        \* the last call on the connection, and the calls so far
    \* ---- NodeFetchDownloader.download ---------------------------------
    dl,             \* the download in progress: position, timer, bytes, time
    \* ---- UnzipperHandler.extractAll -----------------------------------
    zip,            \* the extraction in progress: parser, entries, promise
    \* ---- PackageDocumentationDownloader -------------------------------
    pkgDl           \* the packages directory and the download in progress

sanVars == <<query, sanitized, resanitized, spc>>
pageVars == <<pgContent, pgOffset, pgLimit, pgPage, pgAcc, pgPc>>
secVars == <<dom, sections, secPc>>
storeVars == <<documents, fts, idx, pkgStats, lastRun>>
searchVars == <<dbOpen, lastSearch>>
toolVars == <<disk, toolCall>>
timeVars == <<clock, stamps, born>>
connVars == <<schema, connLog>>
fileVars == <<zip, pkgDl>>
sideVars == <<timeVars, lastSimilar, connVars, dl, fileVars>>

vars == <<sanVars, pageVars, secVars, storeVars, searchVars, toolVars, sideVars>>

\* ------------------------------------------------------------------------
\* Bounds
\* ------------------------------------------------------------------------
MaxQueryLen == 3
\* longest document content and largest page size / offset a client asks for
MaxContentLen == 25
MaxPageLimit == 10
\* markup: elements under <body>, children of a <div>, deepest heading tag
MaxNodes == 3
MaxKids == 1
MaxHeadingLevel == 2
\* the store: inserts stop once a rowid has reached MaxRowid
MaxRowid == 2
\* search calls: largest limit and offset asked for, largest rank magnitude
MaxLimit == 2
MaxOffset == 1
MaxRank == 2
\* tool calls: elements under <body> of the markup a sections call parses
MaxToolNodes == 2
\* indexing runs followed one after the other
MaxRuns == 2
\* timestamps: the last tick of the clock
MaxClock == 3
\* calls on the database connection that are followed
MaxCalls == 5
\* downloads: the longest timeout in ticks, the chunks of a response body
MaxTimeout == 2
MaxChunks == 2

\* ------------------------------------------------------------------------
\* Generic sequence helpers
\* ------------------------------------------------------------------------
SeqsUpTo(S, n) == UNION { [1..k -> S] : k \in 0..n }

\* ------------------------------------------------------------------------
\* Character classes of the sanitizer's regular expressions
\* ------------------------------------------------------------------------
\* /[.]/, /[()]/, /[*]/, /[?]/, /[{}]/, /[[\]]/
DotChars      == {"."}
ParenChars    == {"(", ")"}
StarChars     == {"*"}
QuestionChars == {"?"}
BraceChars    == {"{", "}"}
BracketChars  == {"[", "]"}
\* a-zA-Z and 0-9 (representatives of each range)
LetterChars   == {"a", "b", "Z"}
DigitChars    == {"7"}
\* \s of a JavaScript regular expression: space, tab, line terminators, NBSP...
WhitespaceChars == {" ", "TAB", "NBSP"}
\* characters outside every class above: other ASCII symbols, non-ASCII letters
OtherChars    == {"+", "e-acute"}

Alphabet ==
    DotChars \cup ParenChars \cup StarChars \cup QuestionChars \cup BraceChars
    \cup BracketChars \cup LetterChars \cup DigitChars \cup WhitespaceChars
    \cup {"_", "-"} \cup OtherChars

\* the class [a-zA-Z0-9\s_-] whose complement is replaced by a space
KeptChars == LetterChars \cup DigitChars \cup WhitespaceChars \cup {"_", "-"}

\* s.replace(/[set]/g, '')
StripChars(s, set) == SelectSeq(s, LAMBDA c : c \notin set)

\* s.replace(/[^a-zA-Z0-9\s_-]/g, ' ')
ReplaceUnsafe(s) == [i \in 1..Len(s) |-> IF s[i] \in KeptChars THEN s[i] ELSE " "]

\* s.replace(/\s+/g, ' '): every maximal run of whitespace becomes one space
RECURSIVE CollapseWhitespace(_)
CollapseWhitespace(s) ==
    IF s = <<>> THEN <<>>
    ELSE IF Head(s) \in WhitespaceChars
         THEN IF Len(s) > 1 /\ s[2] \in WhitespaceChars
              THEN CollapseWhitespace(Tail(s))
              ELSE <<" ">> \o CollapseWhitespace(Tail(s))
         ELSE <<Head(s)>> \o CollapseWhitespace(Tail(s))

RECURSIVE TrimStart(_)
TrimStart(s) ==
    IF s # <<>> /\ Head(s) \in WhitespaceChars THEN TrimStart(Tail(s)) ELSE s

RECURSIVE TrimEnd(_)
TrimEnd(s) ==
    IF s # <<>> /\ s[Len(s)] \in WhitespaceChars
    THEN TrimEnd(SubSeq(s, 1, Len(s) - 1)) ELSE s

\* String.prototype.trim
Trim(s) == TrimEnd(TrimStart(s))

\* a variant that trims first, before the unsafe characters become spaces
sanitizeTrimFirst(q) ==
    CollapseWhitespace(ReplaceUnsafe(
        StripChars(StripChars(StripChars(StripChars(StripChars(StripChars(
            Trim(q), DotChars), ParenChars), StarChars), QuestionChars),
            BraceChars), BracketChars)))

\* a variant that forgets to strip the square brackets and keeps them
sanitizeKeepBrackets(q) ==
    LET kept(s) == [i \in 1..Len(s) |->
                      IF s[i] \in KeptChars \cup BracketChars THEN s[i] ELSE " "]
    IN Trim(CollapseWhitespace(kept(
        StripChars(StripChars(StripChars(StripChars(StripChars(
            q, DotChars), ParenChars), StarChars), QuestionChars),
            BraceChars))))

\* DocumentSearch.sanitizeSearchQuery
sanitizeSearchQuery(q) ==
    Trim(CollapseWhitespace(ReplaceUnsafe(
        StripChars(StripChars(StripChars(StripChars(StripChars(StripChars(
            q, DotChars), ParenChars), StarChars), QuestionChars),
            BraceChars), BracketChars))))

\* ------------------------------------------------------------------------
\* Sanitizer harness: draw a query, sanitize it, sanitize the result again
\* ------------------------------------------------------------------------
SanIdle ==
    /\ query = <<>> /\ sanitized = <<>> /\ resanitized = <<>> /\ spc = "input"

NoPage == [chunk |-> <<>>, totalLength |-> 0, hasMore |-> FALSE, nextOffset |-> "none"]

PageIdle ==
    /\ pgContent = <<>> /\ pgOffset = 0 /\ pgLimit = 0
    /\ pgPage = NoPage /\ pgAcc = <<>> /\ pgPc = "idle"

SecIdle == dom = <<>> /\ sections = <<>> /\ secPc = "loaded"

NoIndexer ==
    [pc |-> "idle", version |-> "none", todo |-> {}, found |-> {}, failed |-> {},
     processedCount |-> 0, errorCount |-> 0, before |-> {}, others |-> {}]
NoPreviousRun ==
    [valid |-> FALSE, version |-> "none", found |-> {}, failed |-> {},
     afterIds |-> {}, afterCount |-> 0]
NoStats == [totalFiles |-> 0, processedFiles |-> 0, failedFiles |-> 0]
NoSearch == [called |-> FALSE]
NoRun == [outcome |-> "none", runs |-> 0]
NoCall == [called |-> FALSE]

StoreIdle ==
    /\ documents = {} /\ fts = {} /\ idx = NoIndexer /\ pkgStats = NoStats
    /\ lastRun = NoRun

SearchIdle == dbOpen = FALSE /\ lastSearch = NoSearch

ToolIdle == disk = {} /\ toolCall = NoCall
TimeIdle == clock = 0 /\ stamps = {} /\ born = {}
SimilarIdle == lastSimilar = NoCall
\* a database file that was never opened
FreshSchema ==
    [versionTable |-> FALSE, versions |-> {}, tables |-> FALSE,
     packageColumns |-> FALSE]
NoConnCall ==
    [call |-> "none", outcome |-> "none", fault |-> "none",
     message |-> "none",
     openBefore |-> FALSE, schemaBefore |-> FreshSchema,
     okSinceClose |-> FALSE, calls |-> 0]
ConnIdle == schema = FreshSchema /\ connLog = NoConnCall
\* no download has been started
NoDownload ==
    [pc |-> "idle", timeout |-> 0, resumable |-> FALSE, elapsed |-> 0,
     timer |-> "none", aborted |-> FALSE, received |-> 0, partial |-> FALSE,
     error |-> "none"]
DownloadIdle == dl = NoDownload
\* no extraction has been started
NoZip ==
    [promise |-> "none", parser |-> "idle", overwrite |-> FALSE,
     entries |-> <<>>, st |-> <<>>, next |-> 1,
     parsingComplete |-> FALSE, pendingWrites |-> 0,
     extractedCount |-> 0, skippedCount |-> 0]
ZipIdle == zip = NoZip
\* an empty packages directory, no download started
NoPackageDownload ==
    [pc |-> "idle", packageName |-> "none", packageDir |-> FALSE,
     zipFile |-> "none", extractPath |-> "none",
     outcome |-> "none", error |-> "none", reported |-> "none",
     failedLast |-> FALSE, fetches |-> 0, calls |-> 0]
PackageIdle == pkgDl = NoPackageDownload
FileIdle == ZipIdle /\ PackageIdle
SideIdle == TimeIdle /\ SimilarIdle /\ ConnIdle /\ DownloadIdle /\ FileIdle

InitSan ==
    /\ ToolIdle /\ SideIdle
    /\ PageIdle
    /\ SecIdle
    /\ StoreIdle
    /\ SearchIdle
    /\ query \in SeqsUpTo(Alphabet, MaxQueryLen)
    /\ sanitized = <<>>
    /\ resanitized = <<>>
    /\ spc = "input"

SanitizeQuery ==
    /\ spc = "input"
    /\ sanitized' = sanitizeSearchQuery(query)
    /\ spc' = "sanitized"
    /\ UNCHANGED <<query, resanitized, pageVars, secVars, storeVars, searchVars, toolVars, sideVars>>

Resanitize ==
    /\ spc = "sanitized"
    /\ resanitized' = sanitizeSearchQuery(sanitized)
    /\ spc' = "resanitized"
    /\ UNCHANGED <<query, sanitized, pageVars, secVars, storeVars, searchVars, toolVars, sideVars>>

NextSan == SanitizeQuery \/ Resanitize

SpecSan == InitSan /\ [][NextSan]_vars

\* ------------------------------------------------------------------------
\* C2: the sanitized query contains only ASCII letters, digits, single
\* spaces, underscore and hyphen; none of . ( ) * ? { } [ ] survives, no
\* other whitespace character survives and no two spaces are adjacent.
\* ------------------------------------------------------------------------
SafeOutputChars == LetterChars \cup DigitChars \cup {" ", "_", "-"}

C2_SanitizerSafe ==
    spc # "input" =>
        /\ \A i \in 1..Len(sanitized) : sanitized[i] \in SafeOutputChars
        /\ \A i \in 1..(Len(sanitized) - 1) :
               ~(sanitized[i] = " " /\ sanitized[i + 1] = " ")

\* a query mixing stripped, replaced and whitespace characters was sanitized
\* to a non-empty result
C2_Witness ==
    /\ spc = "sanitized"
    /\ \E i \in 1..Len(query) : query[i] \in BracketChars \cup DotChars
    /\ \E i \in 1..Len(query) : query[i] \in OtherChars \cup {"TAB", "NBSP"}
    /\ sanitized # <<>>

\* ------------------------------------------------------------------------
\* C3: sanitizing an already sanitized query changes nothing.
\* ------------------------------------------------------------------------
C3_SanitizerIdempotent ==
    spc = "resanitized" => resanitized = sanitized

\* the second pass ran on the output of a query that the first pass changed
C3_Witness ==
    /\ spc = "resanitized"
    /\ sanitized # query
    /\ sanitized # <<>>
    /\ \E i \in 1..Len(sanitized) : sanitized[i] = " "

\* ------------------------------------------------------------------------
\* read_unity_doc: the pagination of a document's content
\* ------------------------------------------------------------------------
Min(a, b) == IF a < b THEN a ELSE b
Max(a, b) == IF a > b THEN a ELSE b

\* String.prototype.substring(start, end): both indices are clamped to
\* [0, length] and swapped when start > end
Substring(s, start, end) ==
    LET a == Min(Max(start, 0), Len(s))
        b == Min(Max(end, 0), Len(s))
    IN SubSeq(s, Min(a, b) + 1, Max(a, b))

\* a variant that passes the limit as the end index (substr/substring mix-up)
ReadUnityDocEndIsLimit(content, offset, limit) ==
    LET totalLength == Len(content)
        hasMore == (offset + limit) < totalLength
    IN [chunk       |-> Substring(content, offset, limit),
        totalLength |-> totalLength,
        hasMore     |-> hasMore,
        nextOffset  |-> IF hasMore THEN offset + limit ELSE "none"]

\* a variant that reports more content when the page ends exactly at the end
ReadUnityDocHasMoreAtEnd(content, offset, limit) ==
    LET totalLength == Len(content)
        hasMore == (offset + limit) <= totalLength
    IN [chunk       |-> Substring(content, offset, offset + limit),
        totalLength |-> totalLength,
        hasMore     |-> hasMore,
        nextOffset  |-> IF hasMore THEN offset + limit ELSE "none"]

\* The read_unity_doc handler once the document is found: contentChunk,
\* totalLength, hasMore and the "Next offset" line, which is printed only
\* when hasMore.  The filesystem fallback slices parsed.content the same way.
ReadUnityDoc(content, offset, limit) ==
    LET totalLength == Len(content)
        hasMore == (offset + limit) < totalLength
    IN [chunk       |-> Substring(content, offset, offset + limit),
        totalLength |-> totalLength,
        hasMore     |-> hasMore,
        nextOffset  |-> IF hasMore THEN offset + limit ELSE "none"]

\* document contents: every character is distinct (its own position), so a
\* gap or an overlap between pages changes the concatenation
Contents == { [i \in 1..n |-> i] : n \in 0..MaxContentLen }

InitPage ==
    /\ ToolIdle /\ SideIdle
    /\ SanIdle
    /\ SecIdle
    /\ StoreIdle
    /\ SearchIdle
    /\ pgContent \in Contents
    /\ pgOffset = 0 /\ pgLimit = 0
    /\ pgPage = NoPage /\ pgAcc = <<>> /\ pgPc = "idle"

\* one independent call read_unity_doc(path, offset, limit)
ReadUnityDocAt(offset, limit) ==
    /\ pgPc = "idle"
    /\ pgOffset' = offset
    /\ pgLimit' = limit
    /\ pgPage' = ReadUnityDoc(pgContent, offset, limit)
    /\ pgPc' = "single"
    /\ UNCHANGED <<pgContent, pgAcc, sanVars, secVars, storeVars, searchVars, toolVars, sideVars>>

\* a client starts paging through the document with page size limit >= 1
StartPaging(limit) ==
    /\ pgPc = "idle"
    /\ limit >= 1
    /\ pgOffset' = 0
    /\ pgLimit' = limit
    /\ pgPc' = "reading"
    /\ UNCHANGED <<pgContent, pgPage, pgAcc, sanVars, secVars, storeVars, searchVars, toolVars, sideVars>>

\* the client reads the page at its current offset, appends the chunk and
\* either moves to the reported next offset or stops
ReadNextPage ==
    /\ pgPc = "reading"
    /\ LET page == ReadUnityDoc(pgContent, pgOffset, pgLimit)
       IN /\ pgPage' = page
          /\ pgAcc' = pgAcc \o page.chunk
          /\ IF page.hasMore
             THEN pgOffset' = page.nextOffset /\ pgPc' = "reading"
             ELSE pgOffset' = pgOffset /\ pgPc' = "done"
    /\ UNCHANGED <<pgContent, pgLimit, sanVars, secVars, storeVars, searchVars, toolVars, sideVars>>

NextPage ==
    \/ \E offset \in 0..(MaxContentLen + 1), limit \in 0..MaxPageLimit :
           ReadUnityDocAt(offset, limit)
    \/ \E limit \in 1..MaxPageLimit : StartPaging(limit)
    \/ ReadNextPage

\* a paging client keeps asking for the next page while more is reported
SpecPage == InitPage /\ [][NextPage]_vars /\ WF_vars(ReadNextPage)

\* ------------------------------------------------------------------------
\* C8: paging from offset 0 with a page size >= 1 until a page reports no
\* more content terminates, and the concatenated chunks are exactly the
\* content: no gap, no overlap.
\* ------------------------------------------------------------------------
C8_PaginationComplete ==
    /\ [](pgPc = "done" => pgAcc = pgContent)
    /\ [](pgPc = "reading" => <>(pgPc = "done"))

\* a document that needed at least three pages, the last one partial, was
\* read to the end
C8_Witness ==
    /\ pgPc = "done"
    /\ Len(pgContent) > 2 * pgLimit
    /\ Len(pgContent) % pgLimit # 0
    /\ Len(pgPage.chunk) < pgLimit

\* ------------------------------------------------------------------------
\* C9: read_unity_doc(offset, limit) with offset, limit >= 0 returns
\* content[offset : offset+limit] clipped at the end, reports the total
\* length, reports more content exactly when offset+limit < total and then
\* gives offset+limit as the next offset; content of 25 characters read at
\* offset 0 with limit 10 gives 10 characters, more content, next offset 10.
\* ------------------------------------------------------------------------
ExpectedSlice(content, offset, limit) ==
    LET from == Min(offset, Len(content))
        to   == Min(offset + limit, Len(content))
    IN [i \in 1..(to - from) |-> content[from + i]]

C9_PageContract ==
    pgPc = "single" =>
        /\ pgPage.chunk = ExpectedSlice(pgContent, pgOffset, pgLimit)
        /\ pgPage.totalLength = Len(pgContent)
        /\ pgPage.hasMore <=> (pgOffset + pgLimit < Len(pgContent))
        /\ pgPage.hasMore => pgPage.nextOffset = pgOffset + pgLimit
        /\ (Len(pgContent) = 25 /\ pgOffset = 0 /\ pgLimit = 10) =>
               /\ Len(pgPage.chunk) = 10
               /\ pgPage.hasMore
               /\ pgPage.nextOffset = 10

\* the scenario of the specification: 25 characters, offset 0, limit 10
C9_Witness ==
    /\ pgPc = "single"
    /\ Len(pgContent) = 25 /\ pgOffset = 0 /\ pgLimit = 10
    /\ pgPage.chunk = [i \in 1..10 |-> i]
    /\ pgPage.hasMore

\* ------------------------------------------------------------------------
\* extractSections: sections of a document's markup
\*
\* The markup is the sequence of elements under <body>.  An element is a
\* heading h<level>, a paragraph p, or a div holding headings and paragraphs.
\* An element is named by its path (<<i>> under body, <<i, j>> inside the
\* div at i); the text of a heading or paragraph is one word, its own path,
\* and a text is a sequence of words.
\* ------------------------------------------------------------------------
HeadingNodes == { [kind |-> "h", level |-> l, kids |-> <<>>] : l \in 1..MaxHeadingLevel }
ParagraphNode == [kind |-> "p", level |-> 0, kids |-> <<>>]
LeafNodes == HeadingNodes \cup {ParagraphNode}
DivNodes == { [kind |-> "div", level |-> 0, kids |-> ks] : ks \in SeqsUpTo(LeafNodes, MaxKids) }
Doms == SeqsUpTo(LeafNodes \cup DivNodes, MaxNodes)

NoNode == <<>>

NodeAt(d, path) ==
    IF Len(path) = 1 THEN d[path[1]] ELSE d[path[1]].kids[path[2]]

\* the headings and paragraphs of the markup, in document order
RECURSIVE LeafPathsFrom(_, _)
LeafPathsFrom(d, i) ==
    IF i > Len(d) THEN <<>>
    ELSE (IF d[i].kind = "div"
          THEN [j \in 1..Len(d[i].kids) |-> <<i, j>>]
          ELSE << <<i>> >>) \o LeafPathsFrom(d, i + 1)

LeafPaths(d) == LeafPathsFrom(d, 1)

\* $('h1, h2, h3, h4, h5, h6').toArray(): all headings in document order
HeadingPaths(d) == SelectSeq(LeafPaths(d), LAMBDA path : NodeAt(d, path).kind = "h")

\* $(el).next(): the next sibling element, if any
NextSibling(d, path) ==
    IF Len(path) = 1
    THEN IF path[1] < Len(d) THEN <<path[1] + 1>> ELSE NoNode
    ELSE IF path[2] < Len(d[path[1]].kids) THEN <<path[1], path[2] + 1>> ELSE NoNode

\* $(el).text().trim(): the words of the element and of its descendants
TextOf(d, path) ==
    IF NodeAt(d, path).kind = "div"
    THEN [j \in 1..Len(d[path[1]].kids) |-> <<path[1], j>>]
    ELSE <<path>>

\* the for loop that finds nextHeading: the first later heading whose level
\* is <= the level of heading number index
NextHeading(d, index) ==
    LET hs == HeadingPaths(d)
        level == NodeAt(d, hs[index]).level
        later == { i \in (index + 1)..Len(hs) : NodeAt(d, hs[i]).level <= level }
    IN IF later = {} THEN NoNode
       ELSE hs[CHOOSE i \in later : \A j \in later : i <= j]

\* the while loop over the siblings that follow the heading
RECURSIVE SiblingText(_, _, _)
SiblingText(d, current, nextHeading) ==
    IF current = NoNode \/ (nextHeading # NoNode /\ current = nextHeading)
    THEN <<>>
    ELSE IF NodeAt(d, current).kind = "h"
         THEN <<>>
         ELSE TextOf(d, current) \o SiblingText(d, NextSibling(d, current), nextHeading)

\* a variant that numbers the sections from 1
extractSectionsFromOne(d) ==
    LET hs == HeadingPaths(d)
    IN [index \in 1..Len(hs) |->
           LET title == TextOf(d, hs[index])
           IN [id      |-> <<"section", index>>,
               title   |-> title,
               level   |-> NodeAt(d, hs[index]).level,
               start   |-> 0,
               end     |-> 0,
               content |-> title \o SiblingText(d, NextSibling(d, hs[index]),
                                                NextHeading(d, index))]]

extractSections(d) ==
    LET hs == HeadingPaths(d)
    IN [index \in 1..Len(hs) |->
           LET title == TextOf(d, hs[index])
           IN [id      |-> <<"section", index - 1>>,
               title   |-> title,
               level   |-> NodeAt(d, hs[index]).level,
               start   |-> 0,
               end     |-> 0,
               content |-> title \o SiblingText(d, NextSibling(d, hs[index]),
                                                NextHeading(d, index))]]

InitSec ==
    /\ ToolIdle /\ SideIdle
    /\ SanIdle
    /\ PageIdle
    /\ StoreIdle
    /\ SearchIdle
    /\ dom \in Doms
    /\ sections = <<>>
    /\ secPc = "loaded"

ExtractSections ==
    /\ secPc = "loaded"
    /\ sections' = extractSections(dom)
    /\ secPc' = "extracted"
    /\ UNCHANGED <<dom, sanVars, pageVars, storeVars, searchVars, toolVars, sideVars>>

NextSec == ExtractSections

SpecSec == InitSec /\ [][NextSec]_vars

\* ------------------------------------------------------------------------
\* C10: the content of the section of heading i (level L) is its title
\* followed by everything after heading i up to, not including, the next
\* heading of level <= L, or up to the end of the document; so for
\* h1 > h2 > h2 the h1 section includes the text of both h2 subsections.
\* ------------------------------------------------------------------------
PositionOf(seq, x) == CHOOSE i \in 1..Len(seq) : seq[i] = x

SpanAfterHeading(d, index) ==
    LET leaves == LeafPaths(d)
        hs == HeadingPaths(d)
        from == PositionOf(leaves, hs[index])
        boundary == NextHeading(d, index)
        to == IF boundary = NoNode THEN Len(leaves) + 1 ELSE PositionOf(leaves, boundary)
    IN SubSeq(leaves, from + 1, to - 1)

C10_SectionSpansToBoundary ==
    secPc = "extracted" =>
        \A index \in 1..Len(sections) :
            sections[index].content =
                sections[index].title \o SpanAfterHeading(dom, index)

\* ------------------------------------------------------------------------
\* The document store: the documents table, the documents_fts index and the
\* triggers documents_ai / documents_ad / documents_au
\*
\* A row carries the columns the operations below read: rowid, id,
\* unity_version, type, title, content, package_name, package_version.
\* A title or a content is one token.  documents_fts is an external-content
\* FTS5 table (content=documents): it stores only the inverted index, here
\* the set of <<rowid, column, token>>, and reads column values from the
\* documents table whenever it needs them.
\* ------------------------------------------------------------------------
DefaultVersion == "6000.1"
Versions == {DefaultVersion, "6000.0"}
\* CHECK (type IN ('manual', 'script-reference'))
CheckedTypes == {"manual", "script-reference"}
Paths == {"Manual/A.html", "ScriptReference/B.html"}
\* tokens of titles and of contents
Tokens == {"a", "b"}
ContentTokens == {"7"}
Packages == {"com.unity.inputsystem"}
PackageVersions == {"1.0"}
Null == "NULL"

\* HtmlParser.detectDocumentType
detectDocumentType(filePath) ==
    IF filePath = "ScriptReference/B.html" THEN "script-reference" ELSE "manual"

\* sha256(`${scope}:${relativePath}`) / sha256(`${packageName}/${relativePath}`):
\* the id is determined by the scope and the relative path
DocId(scope, relativePath) == <<scope, relativePath>>

NewRow(id, version, type, title, content, packageName, packageVersion) ==
    [id |-> id, unity_version |-> version, type |-> type, title |-> title,
     content |-> content, package_name |-> packageName,
     package_version |-> packageVersion]

WithRowid(row, rowid) ==
    [rowid |-> rowid, id |-> row.id, unity_version |-> row.unity_version,
     type |-> row.type, title |-> row.title, content |-> row.content,
     package_name |-> row.package_name, package_version |-> row.package_version]

RECURSIVE SetMax(_)
SetMax(S) ==
    IF S = {} THEN 0
    ELSE LET x == CHOOSE y \in S : TRUE
             m == SetMax(S \ {x})
         IN IF x > m THEN x ELSE m

\* the rowid SQLite gives a new row of a rowid table: largest rowid + 1
NextRowid(docs) == SetMax({ d.rowid : d \in docs }) + 1

IndexEntries(rowid, title, content) ==
    { <<rowid, "title", title>>, <<rowid, "content", content>> }

\* what FTS5 removes for a rowid of an external-content table: the tokens of
\* the values it reads from the content table for that rowid; when the
\* content table has no such row, nothing
RemoveByContentLookup(docs, ix, rowid) ==
    ix \ UNION { IndexEntries(d.rowid, d.title, d.content) :
                    d \in { e \in docs : e.rowid = rowid } }

\* trigger documents_ai: INSERT INTO documents_fts(rowid, title, content)
TriggerAfterInsert(ix, new) ==
    ix \cup IndexEntries(new.rowid, new.title, new.content)

\* trigger documents_ad: DELETE FROM documents_fts WHERE rowid = old.rowid,
\* run after the row has left the documents table (docs)
TriggerAfterDelete(docs, ix, old) ==
    RemoveByContentLookup(docs, ix, old.rowid)

\* trigger documents_au: UPDATE documents_fts SET title, content WHERE
\* rowid = new.rowid, run after the documents table (docs) holds the new row
TriggerAfterUpdate(docs, ix, new) ==
    RemoveByContentLookup(docs, ix, new.rowid)
        \cup IndexEntries(new.rowid, new.title, new.content)

\* a variant of INSERT INTO documents on a table without the CHECK on type
InsertRowUnchecked(docs, ix, row) ==
    IF \E d \in docs : d.id = row.id
    THEN [ok |-> FALSE, documents |-> docs, fts |-> ix]
    ELSE LET new == WithRowid(row, NextRowid(docs))
         IN [ok |-> TRUE, documents |-> docs \cup {new},
             fts |-> TriggerAfterInsert(ix, new)]

\* INSERT INTO documents: the CHECK on type and the primary key on id make
\* the statement throw; otherwise the row is stored and documents_ai fires
InsertRow(docs, ix, row) ==
    IF row.type \notin CheckedTypes \/ (\E d \in docs : d.id = row.id)
    THEN [ok |-> FALSE, documents |-> docs, fts |-> ix]
    ELSE LET new == WithRowid(row, NextRowid(docs))
         IN [ok |-> TRUE, documents |-> docs \cup {new},
             fts |-> TriggerAfterInsert(ix, new)]

\* INSERT OR REPLACE INTO documents: a CHECK violation still throws; a row
\* with the same id is removed without firing documents_ad (recursive
\* triggers are off), the new row takes a fresh rowid and documents_ai fires
InsertOrReplaceRow(docs, ix, row) ==
    IF row.type \notin CheckedTypes
    THEN [ok |-> FALSE, documents |-> docs, fts |-> ix]
    ELSE LET new == WithRowid(row, NextRowid(docs))
             kept == { d \in docs : d.id # row.id }
         IN [ok |-> TRUE, documents |-> kept \cup {new},
             fts |-> TriggerAfterInsert(ix, new)]

\* DELETE FROM documents WHERE <rows>: each row is removed, then documents_ad
RECURSIVE DeleteRows(_, _, _)
DeleteRows(docs, ix, rows) ==
    IF rows = {} THEN [documents |-> docs, fts |-> ix]
    ELSE LET old == CHOOSE d \in rows : TRUE
             left == docs \ {old}
         IN DeleteRows(left, TriggerAfterDelete(left, ix, old), rows \ {old})

\* UPDATE documents SET title = ?, content = ? WHERE id = ?
UpdateRow(docs, ix, old, title, content) ==
    LET new == [old EXCEPT !.title = title, !.content = content]
        after == (docs \ {old}) \cup {new}
    IN [documents |-> after, fts |-> TriggerAfterUpdate(after, ix, new)]

InitStore ==
    /\ SanIdle /\ PageIdle /\ SecIdle /\ SearchIdle /\ ToolIdle /\ SideIdle
    /\ lastRun = NoRun
    /\ documents = {}
    /\ fts = {}
    /\ idx = NoIndexer
    /\ pkgStats = NoStats

\* One writer at a time: the single statements below and the package indexer
\* run while the version indexer is not running.

\* a single INSERT INTO documents (as in the database tests)
InsertDocument(version, path, type, title, content) ==
    /\ idx.pc = "idle"
    /\ NextRowid(documents) <= MaxRowid
    /\ LET r == InsertRow(documents, fts,
                          NewRow(DocId(version, path), version, type, title,
                                 content, Null, Null))
       IN documents' = r.documents /\ fts' = r.fts
    /\ UNCHANGED <<idx, pkgStats, lastRun, sanVars, pageVars, secVars, searchVars, toolVars, sideVars>>

\* a single UPDATE of a row (as in the database tests)
UpdateDocument(id, title, content) ==
    /\ idx.pc = "idle"
    /\ \E old \in documents :
          /\ old.id = id
          /\ LET r == UpdateRow(documents, fts, old, title, content)
             IN documents' = r.documents /\ fts' = r.fts
    /\ UNCHANGED <<idx, pkgStats, lastRun, sanVars, pageVars, secVars, searchVars, toolVars, sideVars>>

\* a single DELETE FROM documents WHERE id = ? (as in the database tests)
DeleteDocument(id) ==
    /\ idx.pc = "idle"
    /\ \E old \in documents : old.id = id
    /\ LET r == DeleteRows(documents, fts, { d \in documents : d.id = id })
       IN documents' = r.documents /\ fts' = r.fts
    /\ UNCHANGED <<idx, pkgStats, lastRun, sanVars, pageVars, secVars, searchVars, toolVars, sideVars>>

\* the rows of a scope: a documentation version
RowsOfVersion(docs, version) == { d \in docs : d.unity_version = version }

\* the rows outside the scope of a version run: other versions, and package
\* documents
RowsOutsideVersion(docs, version) ==
    { d \in docs : d.unity_version # version \/ d.package_name # Null }

\* index-docs main, up to the call of processDirectory: the documents of the
\* version are deleted; files are the .html files found under the directory.
\* before and others keep what the store held when the run began.
IndexDocsStart(version, files) ==
    /\ idx.pc = "idle"
    /\ lastRun.runs < MaxRuns
    /\ LET r == DeleteRows(documents, fts,
                           { d \in documents : d.unity_version = version })
       IN documents' = r.documents /\ fts' = r.fts
    /\ idx' = [pc |-> "running", version |-> version, todo |-> files,
               found |-> files, failed |-> {}, processedCount |-> 0,
               errorCount |-> 0,
               before |-> RowsOfVersion(documents, version),
               others |-> RowsOutsideVersion(documents, version)]
    /\ UNCHANGED <<pkgStats, lastRun, sanVars, pageVars, secVars, searchVars, toolVars, sideVars>>

\* a variant of processDirectory whose id is drawn anew in every run instead
\* of being the hash of version and path
IndexDocsFileFreshId(path, readable, title, content) ==
    /\ idx.pc = "running"
    /\ path \in idx.todo
    /\ NextRowid(documents) <= MaxRowid
    /\ LET r == IF readable
                THEN InsertRow(documents, fts,
                         NewRow(<<idx.version, path, lastRun.runs>>, idx.version,
                                detectDocumentType(path), title, content,
                                Null, Null))
                ELSE [ok |-> FALSE, documents |-> documents, fts |-> fts]
       IN /\ documents' = r.documents /\ fts' = r.fts
          /\ idx' = [idx EXCEPT
                        !.todo = idx.todo \ {path},
                        !.failed = IF r.ok THEN @ ELSE @ \cup {path},
                        !.processedCount = IF r.ok THEN @ + 1 ELSE @,
                        !.errorCount = IF r.ok THEN @ ELSE @ + 1]
    /\ UNCHANGED <<pkgStats, lastRun, sanVars, pageVars, secVars, searchVars, toolVars, sideVars>>

\* a variant of processDirectory that does not count a failed file
IndexDocsFileUncounted(path, readable, title, content) ==
    /\ idx.pc = "running"
    /\ path \in idx.todo
    /\ NextRowid(documents) <= MaxRowid
    /\ LET r == IF readable
                THEN InsertRow(documents, fts,
                         NewRow(DocId(idx.version, path), idx.version,
                                detectDocumentType(path), title, content,
                                Null, Null))
                ELSE [ok |-> FALSE, documents |-> documents, fts |-> fts]
       IN /\ documents' = r.documents /\ fts' = r.fts
          /\ idx' = [idx EXCEPT
                        !.todo = idx.todo \ {path},
                        !.failed = IF r.ok THEN @ ELSE @ \cup {path},
                        !.processedCount = IF r.ok THEN @ + 1 ELSE @]
    /\ UNCHANGED <<pkgStats, lastRun, sanVars, pageVars, secVars, searchVars, toolVars, sideVars>>

\* processDirectory, one file: read, parse, insert; an error thrown by any
\* of the three is caught and counted (errorCount), a stored file is counted
\* in processedCount
IndexDocsFile(path, readable, title, content) ==
    /\ idx.pc = "running"
    /\ path \in idx.todo
    /\ NextRowid(documents) <= MaxRowid
    /\ LET r == IF readable
                THEN InsertRow(documents, fts,
                         NewRow(DocId(idx.version, path), idx.version,
                                detectDocumentType(path), title, content,
                                Null, Null))
                ELSE [ok |-> FALSE, documents |-> documents, fts |-> fts]
       IN /\ documents' = r.documents /\ fts' = r.fts
          /\ idx' = [idx EXCEPT
                        !.todo = idx.todo \ {path},
                        !.failed = IF r.ok THEN @ ELSE @ \cup {path},
                        !.processedCount = IF r.ok THEN @ + 1 ELSE @,
                        !.errorCount = IF r.ok THEN @ ELSE @ + 1]
    /\ UNCHANGED <<pkgStats, lastRun, sanVars, pageVars, secVars, searchVars, toolVars, sideVars>>

\* what a run that ended leaves in lastRun: its counters, the ids stored for
\* its version, for a failed run the rows the version had before it, and
\* (prev) the completed run that came before it, if there was one
RunRecord(outcome, run, docs, last) ==
    [outcome |-> outcome, runs |-> last.runs + 1,
     version |-> run.version, found |-> run.found,
     failed |-> run.failed, processedCount |-> run.processedCount,
     errorCount |-> run.errorCount,
     before |-> IF outcome = "failed" THEN run.before ELSE {},
     afterIds |-> { d.id : d \in RowsOfVersion(docs, run.version) },
     afterCount |-> Cardinality(RowsOfVersion(docs, run.version)),
     prev |-> IF last.outcome = "completed"
              THEN [valid |-> TRUE, version |-> last.version,
                    found |-> last.found, failed |-> last.failed,
                    afterIds |-> last.afterIds,
                    afterCount |-> last.afterCount]
              ELSE NoPreviousRun]

\* index-docs main after processDirectory: statistics and the FTS 'optimize'
\* command, which merges the index segments and leaves its entries as they
\* are.  lastRun is written where the runs are followed (NextIndex).
IndexDocsFinish ==
    /\ idx.pc = "running"
    /\ idx.todo = {}
    /\ idx' = NoIndexer
    /\ UNCHANGED <<documents, fts, pkgStats, sanVars, pageVars, secVars, searchVars, toolVars, sideVars>>

\* a fatal error after the purge (readdir of the directory or of one of its
\* subdirectories throws, the optimize command fails): the catch block of
\* main logs it and the process exits with code 1; every statement that ran
\* was committed on its own
IndexDocsAbort ==
    /\ idx.pc = "running"
    /\ idx' = NoIndexer
    /\ UNCHANGED <<documents, fts, pkgStats, sanVars, pageVars, secVars, searchVars, toolVars, sideVars>>

\* the transaction body of indexPackageDocumentation over the files found
RECURSIVE UpsertPackageFiles(_, _, _, _, _, _, _)
UpsertPackageFiles(docs, ix, stats, files, packageName, packageVersion, text) ==
    IF files = {} THEN [documents |-> docs, fts |-> ix, stats |-> stats]
    ELSE LET path == CHOOSE f \in files : TRUE
             r == InsertOrReplaceRow(docs, ix,
                      NewRow(DocId(packageName, path), DefaultVersion,
                             "package-docs", text, text,
                             packageName, packageVersion))
             counted == IF r.ok
                        THEN [stats EXCEPT !.processedFiles = @ + 1]
                        ELSE [stats EXCEPT !.failedFiles = @ + 1]
         IN UpsertPackageFiles(r.documents, r.fts, counted, files \ {path},
                               packageName, packageVersion, text)

\* indexPackageDocumentation(packageName, packageVersion, docsPath)
IndexPackageDocumentation(packageName, packageVersion, files, text) ==
    /\ idx.pc = "idle"
    /\ NextRowid(documents) + Cardinality(files) <= MaxRowid + 1
    /\ LET r == UpsertPackageFiles(documents, fts,
                    [NoStats EXCEPT !.totalFiles = Cardinality(files)],
                    files, packageName, packageVersion, text)
       IN documents' = r.documents /\ fts' = r.fts /\ pkgStats' = r.stats
    /\ UNCHANGED <<idx, lastRun, sanVars, pageVars, secVars, searchVars, toolVars, sideVars>>

InsertTypes == CheckedTypes \cup {"package-docs"}

NextStore ==
    \/ \E version \in Versions, path \in Paths, type \in InsertTypes,
          title \in Tokens, content \in ContentTokens :
           InsertDocument(version, path, type, title, content)
    \/ \E version \in Versions, path \in Paths, title \in Tokens, content \in ContentTokens :
           UpdateDocument(DocId(version, path), title, content)
    \/ \E version \in Versions, path \in Paths :
           DeleteDocument(DocId(version, path))
    \/ \E version \in Versions, files \in SUBSET Paths :
           IndexDocsStart(version, files)
    \/ \E path \in Paths, readable \in BOOLEAN, title \in Tokens, content \in ContentTokens :
           IndexDocsFile(path, readable, title, content)
    \/ IndexDocsFinish /\ UNCHANGED lastRun
    \/ IndexDocsAbort /\ UNCHANGED lastRun
    \/ \E packageName \in Packages, packageVersion \in PackageVersions,
          files \in SUBSET Paths, text \in Tokens :
           IndexPackageDocumentation(packageName, packageVersion, files, text)


\* ------------------------------------------------------------------------
\* C1: after any sequence of inserts, updates and deletes the full-text
\* index holds, for every row of documents, exactly the entry made of that
\* row's current title and content, and holds no entry for a rowid that has
\* no row.
\* ------------------------------------------------------------------------
C1_FtsConsistent ==
    fts = UNION { IndexEntries(d.rowid, d.title, d.content) : d \in documents }

\* ------------------------------------------------------------------------
\* DocumentSearch.search
\* ------------------------------------------------------------------------
Undefined == "undefined"

\* the words of a sanitized query: its maximal runs of non-space characters
RECURSIVE SplitWords(_, _)
SplitWords(s, word) ==
    IF s = <<>> THEN (IF word = <<>> THEN {} ELSE {word})
    ELSE IF Head(s) = " "
         THEN (IF word = <<>> THEN {} ELSE {word}) \cup SplitWords(Tail(s), <<>>)
         ELSE SplitWords(Tail(s), Append(word, Head(s)))

\* documents_fts MATCH ?: the rowids whose index entries hold every word of
\* the query, in any column
MatchRowids(ix, words) ==
    { r \in { e[1] : e \in ix } :
        \A w \in words : \E e \in ix : e[1] = r /\ <<e[3]>> = w }

\* the options after destructuring with their defaults (the callers modelled
\* here always pass limit and offset)
WithDefaults(options) ==
    [options EXCEPT
        !.type    = IF @ = Undefined THEN "all" ELSE @,
        !.version = IF @ = Undefined THEN DefaultVersion ELSE @]

\* a variant whose SQL leaves out the type predicate
SelectRowsAnyType(docs, ix, o, sanitizedQuery) ==
    { d \in docs :
        /\ d.rowid \in MatchRowids(ix, SplitWords(sanitizedQuery, <<>>))
        /\ d.unity_version = o.version
        /\ o.packageName # Undefined => d.package_name = o.packageName
        /\ o.packageVersion # Undefined => d.package_version = o.packageVersion }

\* FROM documents_fts fts INNER JOIN documents d ON d.rowid = fts.rowid
\* WHERE documents_fts MATCH ? AND d.unity_version = ? [AND d.type = ?]
\* [AND d.package_name = ?] [AND d.package_version = ?]
SelectRows(docs, ix, o, sanitizedQuery) ==
    { d \in docs :
        /\ d.rowid \in MatchRowids(ix, SplitWords(sanitizedQuery, <<>>))
        /\ d.unity_version = o.version
        /\ o.type # "all" => d.type = o.type
        /\ o.packageName # Undefined => d.package_name = o.packageName
        /\ o.packageVersion # Undefined => d.package_version = o.packageVersion }

\* ORDER BY rank: every order of the rows that is ascending in rank
\* (rows of equal rank come in any order)
OrderByRank(rows, rank) ==
    { order \in [1..Cardinality(rows) -> rows] :
        /\ \A i, j \in 1..Cardinality(rows) : i # j => order[i] # order[j]
        /\ \A i, j \in 1..Cardinality(rows) :
              i < j => rank[order[i].rowid] <= rank[order[j].rowid] }

\* LIMIT ? OFFSET ?: a negative limit means no limit, a negative offset 0
LimitOffset(order, limit, offset) ==
    LET from == IF offset < 0 THEN 0 ELSE offset
        to == IF limit < 0 THEN Len(order) ELSE Min(from + limit, Len(order))
    IN SubSeq(order, from + 1, to)

Abs(x) == IF x < 0 THEN -x ELSE x

\* a variant that reports the raw rank as the score
ToSearchResultRawScore(row, rank) ==
    [id |-> row.id, title |-> row.title, type |-> row.type,
     packageName |-> row.package_name, packageVersion |-> row.package_version,
     score |-> rank]

\* results.map(row => ({ ..., score: Math.abs(row.score) }))
ToSearchResult(row, rank) ==
    [id |-> row.id, title |-> row.title, type |-> row.type,
     packageName |-> row.package_name, packageVersion |-> row.package_version,
     score |-> Abs(rank)]

Returned(rows, ranks, statements) ==
    [outcome |-> "returned", results |-> rows, ranks |-> ranks,
     statements |-> statements]

Thrown(statements) ==
    [outcome |-> "thrown", results |-> <<>>, ranks |-> <<>>,
     statements |-> statements]

\* FTS5 ranks (bm25) are negative
Ranks == { -r : r \in 1..MaxRank }

\* this.db.getDatabase().prepare(sql).all(...params) and the mapping of its
\* rows: one outcome for every rank FTS5 may give the selected rows and
\* every order ORDER BY may put equal ranks in
RunStatement(docs, ix, o, sanitizedQuery) ==
    LET rows == SelectRows(docs, ix, o, sanitizedQuery)
    IN UNION {
         { LET page == LimitOffset(order, o.limit, o.offset)
           IN Returned([i \in 1..Len(page) |-> ToSearchResult(page[i], rank[page[i].rowid])],
                       [i \in 1..Len(page) |-> rank[page[i].rowid]], 1) :
             order \in OrderByRank(rows, rank) } :
         rank \in [{ d.rowid : d \in rows } -> Ranks] }

\* a variant that asks for the database before it looks at the query
searchDatabaseFirst(docs, ix, open, options, fault) ==
    LET o == WithDefaults(options)
        sanitizedQuery == sanitizeSearchQuery(o.query)
    IN IF ~open THEN {Thrown(0)}
       ELSE IF Trim(sanitizedQuery) = <<>> THEN {Returned(<<>>, <<>>, 0)}
       ELSE IF fault THEN {Thrown(1)}
       ELSE RunStatement(docs, ix, o, sanitizedQuery)

\* a variant whose catch block returns an empty list
searchSwallowsErrors(docs, ix, open, options, fault) ==
    LET o == WithDefaults(options)
        sanitizedQuery == sanitizeSearchQuery(o.query)
    IN IF Trim(sanitizedQuery) = <<>> THEN {Returned(<<>>, <<>>, 0)}
       ELSE IF ~open THEN {Returned(<<>>, <<>>, 0)}
       ELSE IF fault THEN {Returned(<<>>, <<>>, 1)}
       ELSE RunStatement(docs, ix, o, sanitizedQuery)

\* DocumentSearch.search: the set of outcomes the call can have, given the
\* store, the connection, the options and whether the statement fails
\* (fault): an empty sanitized query returns before the database is asked
\* for; getDatabase throws on a closed connection; what the statement
\* throws is logged and thrown again
search(docs, ix, open, options, fault) ==
    LET o == WithDefaults(options)
        sanitizedQuery == sanitizeSearchQuery(o.query)
    IN IF Trim(sanitizedQuery) = <<>> THEN {Returned(<<>>, <<>>, 0)}
       ELSE IF ~open THEN {Thrown(0)}
       ELSE IF fault THEN {Thrown(1)}
       ELSE RunStatement(docs, ix, o, sanitizedQuery)

\* the queries a caller sends
SearchQueries ==
    { <<>>, <<".", "TAB", "*">>, <<"a">>, <<"7">>, <<"a", ".", " ", "7", "?">> }

SearchOptionSets ==
    [query : SearchQueries,
     limit : 0..MaxLimit,
     offset : 0..MaxOffset,
     type : {"all", "manual", "script-reference", "package-docs"},
     version : {Undefined, "6000.0"},
     packageName : {Undefined} \cup Packages,
     packageVersion : {Undefined} \cup PackageVersions]

\* the stores a search runs on: rows written by INSERT statements
RECURSIVE StoreAfterInserts(_, _, _)
StoreAfterInserts(docs, ix, rows) ==
    IF rows = <<>> THEN [documents |-> docs, fts |-> ix]
    ELSE LET r == InsertRow(docs, ix, Head(rows))
         IN StoreAfterInserts(r.documents, r.fts, Tail(rows))

SeedRows ==
    << NewRow(DocId(DefaultVersion, "Manual/A.html"), DefaultVersion, "manual", "a", "7", Null, Null),
       NewRow(DocId(DefaultVersion, "ScriptReference/B.html"), DefaultVersion, "script-reference", "a", "7", Null, Null),
       NewRow(DocId("6000.0", "Manual/A.html"), "6000.0", "manual", "a", "7", Null, Null),
       NewRow(DocId("com.unity.inputsystem", "Manual/A.html"), DefaultVersion, "manual", "b", "7",
              "com.unity.inputsystem", "1.0") >>

SeedStores ==
    { StoreAfterInserts({}, {}, SelectSeq(SeedRows, LAMBDA row : row \in chosen)) :
        chosen \in SUBSET { SeedRows[i] : i \in 1..Len(SeedRows) } }

InitSearch ==
    /\ SanIdle /\ PageIdle /\ SecIdle /\ ToolIdle /\ SideIdle
    /\ lastRun = NoRun
    /\ \E store \in SeedStores : documents = store.documents /\ fts = store.fts
    /\ idx = NoIndexer
    /\ pkgStats = NoStats
    /\ dbOpen = FALSE
    /\ lastSearch = NoSearch

\* DatabaseConnection.initialize on the server's connection
DbInitialize ==
    /\ ~lastSearch.called
    /\ ~toolCall.called
    /\ ~dbOpen
    /\ dbOpen' = TRUE
    /\ UNCHANGED <<lastSearch, storeVars, sanVars, pageVars, secVars, toolVars, sideVars>>

\* DatabaseConnection.close
DbClose ==
    /\ ~lastSearch.called
    /\ ~toolCall.called
    /\ dbOpen
    /\ dbOpen' = FALSE
    /\ UNCHANGED <<lastSearch, storeVars, sanVars, pageVars, secVars, toolVars, sideVars>>

\* one call of search; lastSearch keeps the call and what it gave the caller
\* until the caller is done with it (the server handles one request at a time)
Search(options, fault) ==
    /\ ~lastSearch.called
    /\ \E out \in search(documents, fts, dbOpen, options, fault) :
             lastSearch' = [called |-> TRUE, options |-> options,
                            open |-> dbOpen, fault |-> fault,
                            outcome |-> out.outcome, results |-> out.results,
                            ranks |-> out.ranks, statements |-> out.statements]
    /\ UNCHANGED <<dbOpen, storeVars, sanVars, pageVars, secVars, toolVars, sideVars>>

\* the caller has consumed the result
SearchDone ==
    /\ lastSearch.called
    /\ lastSearch' = NoSearch
    /\ UNCHANGED <<dbOpen, storeVars, sanVars, pageVars, secVars, toolVars, sideVars>>

NextSearch ==
    \/ DbInitialize
    \/ DbClose
    \/ \E options \in SearchOptionSets, fault \in BOOLEAN : Search(options, fault)
    \/ SearchDone

SpecSearch == InitSearch /\ [][NextSearch]_vars

\* the sanitized, trimmed query of the recorded call
SanitizedOfCall == Trim(sanitizeSearchQuery(lastSearch.options.query))

\* the filters of the recorded call after defaults
FiltersOfCall == WithDefaults(lastSearch.options)

\* the stored document a result stands for
DocumentOf(result) == CHOOSE d \in documents : d.id = result.id

\* C4: when the sanitized query is empty (empty query, whitespace only, or
\* only stripped or replaced symbols) search returns the empty list, issues
\* no statement and does not throw, also on a connection that is not open.
C4_EmptyQueryShortCircuit ==
    (lastSearch.called /\ SanitizedOfCall = <<>>) =>
        /\ lastSearch.outcome = "returned"
        /\ lastSearch.results = <<>>
        /\ lastSearch.statements = 0

C4_Witness ==
    /\ lastSearch.called
    /\ lastSearch.options.query # <<>>
    /\ SanitizedOfCall = <<>>
    /\ ~lastSearch.open
    /\ lastSearch.outcome = "returned"

C6_AscendingScore ==
    (lastSearch.called /\ lastSearch.outcome = "returned") =>
        \A i, j \in 1..Len(lastSearch.results) :
            i < j => lastSearch.results[i].score <= lastSearch.results[j].score

\* C6: search returns its results in ascending order of the engine's native
\* (negative) rank, best match first, and reports score = absolute value of
\* the rank, never negative; so the returned list is in descending order of
\* the reported score.
C6_RankOrderDescendingScore ==
    (lastSearch.called /\ lastSearch.outcome = "returned") =>
        /\ \A i \in 1..Len(lastSearch.results) :
              /\ lastSearch.results[i].score = Abs(lastSearch.ranks[i])
              /\ lastSearch.results[i].score >= 0
        /\ \A i, j \in 1..Len(lastSearch.results) :
              i < j => /\ lastSearch.ranks[i] <= lastSearch.ranks[j]
                       /\ lastSearch.results[i].score >= lastSearch.results[j].score

C6_Witness ==
    /\ lastSearch.called
    /\ lastSearch.outcome = "returned"
    /\ Len(lastSearch.results) >= 2
    /\ lastSearch.ranks[1] < lastSearch.ranks[2]
    /\ lastSearch.results[1].score > lastSearch.results[2].score

\* C7: a storage fault during search (connection not initialized, a
\* statement that fails) is thrown to the caller and never becomes an empty
\* list; the empty sanitized query is the only outcome that returns without
\* a statement having been issued.
C7_FaultsAreRaised ==
    lastSearch.called =>
        /\ (SanitizedOfCall # <<>> /\ (~lastSearch.open \/ lastSearch.fault))
              => lastSearch.outcome = "thrown"
        /\ (lastSearch.outcome = "returned" /\ lastSearch.statements = 0)
              => SanitizedOfCall = <<>>

C7_Witness ==
    /\ lastSearch.called
    /\ SanitizedOfCall # <<>>
    /\ lastSearch.open
    /\ lastSearch.fault
    /\ lastSearch.outcome = "thrown"
    /\ lastSearch.statements = 1
    /\ documents # {}

\* ------------------------------------------------------------------------
\* The tool boundary: the CallToolRequestSchema handler of server.ts
\*
\* A handler body either returns a text or throws; Text and Throw have the
\* same fields so that every response is one kind of record.  head is the
\* fixed part of the text, arg the path / section id / message it quotes,
\* ids, levels and total the section listing, body the section content.
\* ------------------------------------------------------------------------
DefaultReadLimit == 2000
NotInitialized == "Database not initialized. Call initialize() first."

Text(head, arg, ids, levels, body) ==
    [kind |-> "return", head |-> head, arg |-> arg, total |-> Len(ids),
     ids |-> ids, levels |-> levels, body |-> body]

Throw(message) ==
    [kind |-> "throw", head |-> message, arg |-> "", total |-> 0,
     ids |-> <<>>, levels |-> <<>>, body |-> <<>>]

\* file_path of a row: the relative path its id was made from
FilePath(d) == d.id[2]

\* SELECT * FROM documents WHERE file_path = ? AND unity_version = ?
\* with the default version '6000.1'
getDocumentByPath(docs, filePath) ==
    { d \in docs : FilePath(d) = filePath /\ d.unity_version = DefaultVersion }

\* search_unity_docs, given what search returned or threw
HandleSearchUnityDocs(out) ==
    IF out.outcome = "thrown" THEN Throw("search failed")
    ELSE IF Len(out.results) = 0 THEN Text("No results found", "", <<>>, <<>>, <<>>)
    ELSE Text("Found results", "", <<>>, <<>>,
              [i \in 1..Len(out.results) |-> out.results[i].title])

\* read_unity_doc with the default offset and limit: the store first, then
\* the file under data/extracted/unity-6000.1
HandleReadUnityDoc(docs, open, files, path, fault) ==
    IF ~open THEN Throw(NotInitialized)
    ELSE IF fault THEN Throw("read failed")
    ELSE LET rows == getDocumentByPath(docs, path)
         IN IF rows = {}
            THEN IF path \notin files
                 THEN Text("Documentation file not found", path, <<>>, <<>>, <<>>)
                 ELSE Text("Document read from file", path, <<>>, <<>>,
                           ReadUnityDoc(<<path>>, 0, DefaultReadLimit).chunk)
            ELSE LET doc == CHOOSE d \in rows : TRUE
                 IN Text("Document", path, <<>>, <<>>,
                         ReadUnityDoc(<<doc.content>>, 0, DefaultReadLimit).chunk)

\* list_unity_doc_sections; html is doc.html of the row found
HandleListSections(docs, open, html, path, fault) ==
    IF ~open THEN Throw(NotInitialized)
    ELSE IF fault THEN Throw("lookup failed")
    ELSE IF getDocumentByPath(docs, path) = {}
         THEN Text("Documentation file not found", path, <<>>, <<>>, <<>>)
         ELSE LET secs == extractSections(html)
              IN Text("Sections", path,
                      [i \in 1..Len(secs) |-> secs[i].id],
                      [i \in 1..Len(secs) |-> secs[i].level], <<>>)

\* read_unity_doc_section
HandleReadSection(docs, open, html, path, section_id, fault) ==
    IF ~open THEN Throw(NotInitialized)
    ELSE IF fault THEN Throw("lookup failed")
    ELSE IF getDocumentByPath(docs, path) = {}
         THEN Text("Documentation file not found", path, <<>>, <<>>, <<>>)
         ELSE LET secs == extractSections(html)
                  found == { i \in 1..Len(secs) : secs[i].id = section_id }
              IN IF found = {}
                 THEN Text("Section not found", "", [i \in 1..Len(secs) |-> secs[i].id],
                           <<>>, <<>>)
                 ELSE LET target == secs[CHOOSE i \in found : \A j \in found : i <= j]
                      IN Text("Section", path, <<target.id>>, <<target.level>>,
                              target.content)

\* get_unity_version_info and list_unity_packages: getDatabase, then
\* statements whose failures are caught inside the handler
HandleDatabaseReport(open, head) ==
    IF ~open THEN Throw(NotInitialized) ELSE Text(head, "", <<>>, <<>>, <<>>)

\* download_unity_package_docs: a failing download is answered in the handler
HandleDownload(packageName, files, fault) ==
    IF packageName \notin Packages THEN Text("Unknown package", packageName, <<>>, <<>>, <<>>)
    ELSE IF packageName \in files
         THEN Text("Package documentation already downloaded", packageName, <<>>, <<>>, <<>>)
         ELSE IF fault
              THEN Text("Failed to download package documentation", packageName, <<>>, <<>>, <<>>)
              ELSE Text("Package Documentation Downloaded Successfully", packageName,
                        <<>>, <<>>, <<>>)

ToolNames ==
    { "search_unity_docs", "read_unity_doc", "list_unity_doc_sections",
      "read_unity_doc_section", "get_unity_version_info", "list_unity_packages",
      "download_unity_package_docs", "no_such_tool" }

\* the try block of the handler: the branch of the tool name
HandleTool(name, args, docs, open, files, fault, out) ==
    CASE name = "search_unity_docs" -> HandleSearchUnityDocs(out)
      [] name = "read_unity_doc" -> HandleReadUnityDoc(docs, open, files, args.path, fault)
      [] name = "list_unity_doc_sections" ->
             HandleListSections(docs, open, args.html, args.path, fault)
      [] name = "read_unity_doc_section" ->
             HandleReadSection(docs, open, args.html, args.path, args.section_id, fault)
      [] name = "get_unity_version_info" -> HandleDatabaseReport(open, "Version Information")
      [] name = "list_unity_packages" -> HandleDatabaseReport(open, "Available Packages")
      [] name = "download_unity_package_docs" -> HandleDownload(args.packageName, files, fault)
      [] OTHER -> Throw("Unknown tool")

\* a variant of the handler without its catch block
CallToolNoCatch(name, args, docs, open, files, fault, out) ==
    LET r == HandleTool(name, args, docs, open, files, fault, out)
    IN IF r.kind = "throw"
       THEN [channel |-> "fault", head |-> r.head, message |-> r.head, arg |-> r.arg,
             total |-> r.total, ids |-> r.ids, levels |-> r.levels, body |-> r.body]
       ELSE [channel |-> "text", head |-> r.head, message |-> "", arg |-> r.arg,
             total |-> r.total, ids |-> r.ids, levels |-> r.levels, body |-> r.body]

\* the handler: what the try block returns, or 'Error: <message>' for what
\* it throws
CallTool(name, args, docs, open, files, fault, out) ==
    LET r == HandleTool(name, args, docs, open, files, fault, out)
    IN IF r.kind = "throw"
       THEN [channel |-> "text", head |-> "Error", message |-> r.head, arg |-> r.arg,
             total |-> r.total, ids |-> r.ids, levels |-> r.levels, body |-> r.body]
       ELSE [channel |-> "text", head |-> r.head, message |-> "", arg |-> r.arg,
             total |-> r.total, ids |-> r.ids, levels |-> r.levels, body |-> r.body]

\* markup of the document a sections call reads: headings, paragraphs and
\* divs that wrap at most one of them
ToolDivNodes ==
    { [kind |-> "div", level |-> 0, kids |-> ks] : ks \in SeqsUpTo(LeafNodes, 1) }

ToolDoms == SeqsUpTo(LeafNodes \cup ToolDivNodes, MaxToolNodes)

SectionIds == { <<"section", k>> : k \in 0..MaxToolNodes }

\* the arguments of a call; a tool reads only its own arguments.  html is
\* not an argument: it is doc.html of the row the call finds, so it is drawn
\* when the call finds a row (HtmlRead)
ToolArgs(name) ==
    IF name = "search_unity_docs"
    THEN [path : {""}, section_id : {<<"section", 0>>}, html : {<<>>},
          query : {<<>>, <<"a">>}, packageName : {""}]
    ELSE IF name = "read_unity_doc"
    THEN [path : Paths, section_id : {<<"section", 0>>}, html : {<<>>},
          query : {<<>>}, packageName : {""}]
    ELSE IF name = "list_unity_doc_sections"
    THEN [path : Paths, section_id : {<<"section", 0>>}, html : {<<>>},
          query : {<<>>}, packageName : {""}]
    ELSE IF name = "read_unity_doc_section"
    THEN [path : Paths, section_id : SectionIds, html : {<<>>},
          query : {<<>>}, packageName : {""}]
    ELSE IF name = "download_unity_package_docs"
    THEN [path : {""}, section_id : {<<"section", 0>>}, html : {<<>>},
          query : {<<>>}, packageName : Packages \cup {"com.unity.nothing"}]
    ELSE [path : {""}, section_id : {<<"section", 0>>}, html : {<<>>},
          query : {<<>>}, packageName : {""}]

\* the stores a tool call runs on
ToolSeedRows ==
    << NewRow(DocId(DefaultVersion, "Manual/A.html"), DefaultVersion, "manual", "a", "7", Null, Null),
       NewRow(DocId("6000.0", "ScriptReference/B.html"), "6000.0", "script-reference", "a", "7", Null, Null) >>

ToolStores ==
    { StoreAfterInserts({}, {}, SelectSeq(ToolSeedRows, LAMBDA row : row \in chosen)) :
        chosen \in SUBSET { ToolSeedRows[i] : i \in 1..Len(ToolSeedRows) } }

InitTool ==
    /\ SanIdle /\ PageIdle /\ SecIdle /\ SideIdle
    /\ \E store \in ToolStores : documents = store.documents /\ fts = store.fts
    /\ idx = NoIndexer
    /\ pkgStats = NoStats
    /\ lastRun = NoRun
    /\ dbOpen = FALSE
    /\ lastSearch = NoSearch
    /\ disk \in SUBSET (Paths \cup Packages)
    /\ toolCall = NoCall

\* the markup a call can read from the store
HtmlRead(name, args, docs, open, fault) ==
    IF /\ name \in {"list_unity_doc_sections", "read_unity_doc_section"}
       /\ open /\ ~fault
       /\ getDocumentByPath(docs, args.path) # {}
    THEN ToolDoms ELSE {<<>>}

\* one tool call; toolCall keeps the request and the response until the
\* client is done with it
CallToolRequest(name, args0, fault) ==
    /\ ~toolCall.called
    /\ \E html \in HtmlRead(name, args0, documents, dbOpen, fault) :
       LET args == [args0 EXCEPT !.html = html] IN
       \E out \in (IF name = "search_unity_docs"
                   THEN search(documents, fts, dbOpen,
                               [query |-> args.query, limit |-> MaxLimit, offset |-> 0,
                                type |-> "all", version |-> Undefined,
                                packageName |-> Undefined, packageVersion |-> Undefined],
                               fault)
                   ELSE {Thrown(0)}) :
          toolCall' = [called |-> TRUE, name |-> name, args |-> args,
                       open |-> dbOpen, fault |-> fault,
                       response |-> CallTool(name, args, documents, dbOpen, disk, fault, out)]
    /\ UNCHANGED <<disk, dbOpen, lastSearch, storeVars, sanVars, pageVars, secVars, sideVars>>

\* the client has consumed the response
CallToolDone ==
    /\ toolCall.called
    /\ toolCall' = NoCall
    /\ UNCHANGED <<disk, dbOpen, lastSearch, storeVars, sanVars, pageVars, secVars, sideVars>>

NextTool ==
    \/ DbInitialize
    \/ DbClose
    \/ \E name \in ToolNames : \E args \in ToolArgs(name), fault \in BOOLEAN :
           CallToolRequest(name, args, fault)
    \/ CallToolDone

SpecTool == InitTool /\ [][NextTool]_vars

\* the heading depths of the markup in document order, read off the tree
RECURSIVE HeadingLevelsInOrder(_)
HeadingLevelsInOrder(nodes) ==
    IF nodes = <<>> THEN <<>>
    ELSE (IF Head(nodes).kind = "h" THEN <<Head(nodes).level>>
          ELSE HeadingLevelsInOrder(Head(nodes).kids))
         \o HeadingLevelsInOrder(Tail(nodes))

\* the call found a row: connection open, no failing statement, a row for
\* the path and the default version
CallFoundDocument ==
    /\ toolCall.called
    /\ toolCall.open /\ ~toolCall.fault
    /\ getDocumentByPath(documents, toolCall.args.path) # {}

\* C11: extractSections gives one section per heading h1-h6 in document
\* order; heading number k (from 0) has id section-k and its own depth as
\* level, so ids are 0..n-1 whatever the levels; markup without headings
\* gives no sections and list_unity_doc_sections then reports zero sections,
\* not an error.
C11_SectionPerHeading ==
    (CallFoundDocument /\ toolCall.name = "list_unity_doc_sections") =>
        LET levels == HeadingLevelsInOrder(toolCall.args.html)
            r == toolCall.response
        IN /\ r.channel = "text"
           /\ r.head = "Sections"
           /\ r.total = Len(levels)
           /\ r.levels = levels
           /\ r.ids = [k \in 1..Len(levels) |-> <<"section", k - 1>>]
           /\ extractSections(toolCall.args.html) = <<>> <=> levels = <<>>

C11_Witness ==
    /\ CallFoundDocument
    /\ toolCall.name = "list_unity_doc_sections"
    /\ Len(toolCall.args.html) = 2
    /\ toolCall.args.html[1].kind = "div"
    /\ toolCall.response.levels = <<2, 1>>
    /\ toolCall.response.ids = << <<"section", 0>>, <<"section", 1>> >>

\* C12: for a path that matches no document read_unity_doc,
\* list_unity_doc_sections and read_unity_doc_section answer with the 'not
\* found' text; for a known document and a section id that is not one of the
\* extracted ids read_unity_doc_section answers 'Section not found' and
\* lists exactly the valid ids; neither case is an exception.
C12_NotFoundResponses ==
    (toolCall.called /\ toolCall.open /\ ~toolCall.fault) =>
        LET r == toolCall.response
            rows == getDocumentByPath(documents, toolCall.args.path)
            secs == extractSections(toolCall.args.html)
        IN /\ (/\ toolCall.name \in {"read_unity_doc", "list_unity_doc_sections",
                                     "read_unity_doc_section"}
               /\ rows = {})
                  => (r.channel = "text" /\ r.head = "Documentation file not found")
           /\ (/\ toolCall.name = "read_unity_doc_section"
               /\ rows # {}
               /\ \A i \in 1..Len(secs) : secs[i].id # toolCall.args.section_id)
                  => /\ r.channel = "text"
                     /\ r.head = "Section not found"
                     /\ r.ids = [i \in 1..Len(secs) |-> secs[i].id]

\* C13: every tool call ends in a text response; what the handling of a call
\* throws (unknown tool name, store not initialized, failing search or
\* lookup) is answered as the text 'Error: <message>', never as a protocol
\* fault.
C13_AlwaysTextResponse ==
    toolCall.called =>
        LET r == toolCall.response
        IN /\ r.channel = "text"
           /\ toolCall.name = "no_such_tool"
                 => (r.head = "Error" /\ r.message = "Unknown tool")
           /\ (/\ ~toolCall.open
               /\ toolCall.name \in {"read_unity_doc", "list_unity_doc_sections",
                                     "read_unity_doc_section", "get_unity_version_info",
                                     "list_unity_packages"})
                 => (r.head = "Error" /\ r.message = NotInitialized)
           /\ (/\ toolCall.name = "search_unity_docs"
               /\ Trim(sanitizeSearchQuery(toolCall.args.query)) # <<>>
               /\ (~toolCall.open \/ toolCall.fault))
                 => r.head = "Error"
           /\ (/\ toolCall.open /\ toolCall.fault
               /\ toolCall.name \in {"read_unity_doc", "list_unity_doc_sections",
                                     "read_unity_doc_section"})
                 => r.head = "Error"

C13_Witness ==
    /\ toolCall.called
    /\ toolCall.name = "search_unity_docs"
    /\ toolCall.open /\ toolCall.fault
    /\ toolCall.args.query = <<"a">>
    /\ toolCall.response.channel = "text"
    /\ toolCall.response.head = "Error"

\* ------------------------------------------------------------------------
\* The indexers on their own: index-docs and the package indexer run one
\* after the other on a store that earlier INSERT statements have filled
\* ------------------------------------------------------------------------
\* the stores the runs start from hold at most one row
IndexSeedStores ==
    { store \in SeedStores : Cardinality(store.documents) <= 1 }

InitIndex ==
    /\ SanIdle /\ PageIdle /\ SecIdle /\ SearchIdle /\ ToolIdle /\ SideIdle
    /\ \E store \in IndexSeedStores : documents = store.documents /\ fts = store.fts
    /\ idx = NoIndexer
    /\ pkgStats = NoStats
    /\ lastRun = NoRun

NextIndex ==
    \/ \E version \in Versions, files \in SUBSET Paths :
           IndexDocsStart(version, files)
    \/ \E path \in Paths, readable \in BOOLEAN, title \in Tokens, content \in ContentTokens :
           IndexDocsFile(path, readable, title, content)
    \/ IndexDocsFinish /\ lastRun' = RunRecord("completed", idx, documents, lastRun)
    \/ IndexDocsAbort /\ lastRun' = RunRecord("failed", idx, documents, lastRun)
    \/ \E packageName \in Packages, packageVersion \in PackageVersions,
          files \in SUBSET Paths, text \in Tokens :
           IndexPackageDocumentation(packageName, packageVersion, files, text)

SpecIndex == InitIndex /\ [][NextIndex]_vars

C15_FailedRunRestoresStore ==
    (lastRun.outcome = "failed" /\ idx.pc = "idle")
    => RowsOfVersion(documents, lastRun.version) = lastRun.before

C17_NoStaleEntries ==
    (lastRun.outcome = "completed" /\ idx.pc = "idle")
    => LET rows == RowsOfVersion(documents, lastRun.version)
       IN /\ { d.id : d \in rows }
               = { DocId(lastRun.version, path) :
                      path \in lastRun.found \ lastRun.failed }
          /\ { e \in fts : e[1] \in { d.rowid : d \in rows } }
               = UNION { IndexEntries(d.rowid, d.title, d.content) : d \in rows }

C19_PackageDocsStored ==
    /\ pkgStats.totalFiles > 0
        => Cardinality({ d \in documents :
                            /\ d.type = "package-docs"
                            /\ d.package_name \in Packages
                            /\ d.package_version \in PackageVersions })
             >= pkgStats.totalFiles
    /\ \A d \in documents :
          d.type # "package-docs"
          => d.package_name = Null /\ d.package_version = Null

\* ------------------------------------------------------------------------
\* C20: a file that fails is counted and the run goes on: while the version
\* indexer runs, processedCount + errorCount is the number of files handled
\* so far and errorCount the number of files that failed; when the run has
\* completed, processedCount + errorCount is the number of HTML files found
\* and the documents stored for the version are exactly those of the files
\* that did not fail.  The package indexer's processedFiles + failedFiles is
\* its totalFiles.
C20_FailuresCountedRunCompletes ==
    /\ idx.pc = "running"
        => /\ idx.processedCount + idx.errorCount
                = Cardinality(idx.found \ idx.todo)
           /\ idx.errorCount = Cardinality(idx.failed)
    /\ lastRun.outcome = "completed"
        => /\ lastRun.processedCount + lastRun.errorCount
                = Cardinality(lastRun.found)
           /\ lastRun.errorCount = Cardinality(lastRun.failed)
           /\ lastRun.afterIds
                = { DocId(lastRun.version, path) :
                       path \in lastRun.found \ lastRun.failed }
    /\ pkgStats.processedFiles + pkgStats.failedFiles = pkgStats.totalFiles

\* a run has completed in which one file failed and another was stored
C20_Witness ==
    /\ lastRun.outcome = "completed"
    /\ lastRun.errorCount > 0
    /\ lastRun.processedCount > 0
    /\ lastRun.afterCount = lastRun.processedCount

\* ------------------------------------------------------------------------
\* created_at and updated_at of the documents table
\* (schema.ts: column defaults, trigger documents_update_timestamp;
\* init-db.ts: the package indexer's INSERT OR REPLACE)
\* ------------------------------------------------------------------------
StampIds ==
    { DocId(DefaultVersion, path) : path \in Paths }
        \cup { DocId(packageName, path) : packageName \in Packages, path \in Paths }

\* created_at TEXT DEFAULT CURRENT_TIMESTAMP, updated_at likewise
DefaultStamps(id, now) == [id |-> id, created_at |-> now, updated_at |-> now]

\* a variant of the trigger that leaves updated_at as it is
KeepUpdatedAt(row, now) == row

\* trigger documents_update_timestamp: UPDATE documents SET updated_at =
\* CURRENT_TIMESTAMP WHERE rowid = new.rowid
UpdateTimestamp(row, now) == [row EXCEPT !.updated_at = now]

\* INSERT OR REPLACE INTO documents (..., created_at, updated_at) VALUES
\* (..., now, now): rejected by the CHECK on type, else the row with the id
\* is replaced by one that carries the two values given
ReplaceStamps(rows, id, type, now) ==
    IF type \notin CheckedTypes THEN rows
    ELSE { r \in rows : r.id # id } \cup {DefaultStamps(id, now)}

InitTime ==
    /\ SanIdle /\ PageIdle /\ SecIdle /\ SearchIdle /\ ToolIdle
    /\ documents = {} /\ fts = {} /\ idx = NoIndexer /\ pkgStats = NoStats
    /\ lastRun = NoRun
    /\ SimilarIdle /\ ConnIdle /\ DownloadIdle /\ FileIdle
    /\ TimeIdle

\* time passes
Tick ==
    /\ clock < MaxClock
    /\ clock' = clock + 1
    /\ UNCHANGED <<stamps, born, lastSimilar, connVars, dl, sanVars, pageVars, secVars, storeVars, searchVars, toolVars, fileVars>>

\* INSERT INTO documents without created_at and updated_at (index-docs, the
\* database tests); born notes when the row was inserted and last written
StampInsert(id) ==
    /\ \A r \in stamps : r.id # id
    /\ stamps' = stamps \cup {DefaultStamps(id, clock)}
    /\ born' = born \cup {[id |-> id, inserted |-> clock, written |-> clock]}
    /\ UNCHANGED <<clock, lastSimilar, connVars, dl, sanVars, pageVars, secVars, storeVars, searchVars, toolVars, fileVars>>

\* UPDATE documents SET title = ... WHERE id = ?, and the trigger it fires
StampUpdate(id) ==
    /\ \E r \in stamps :
          /\ r.id = id
          /\ stamps' = (stamps \ {r}) \cup {UpdateTimestamp(r, clock)}
    /\ born' = { IF b.id = id THEN [b EXCEPT !.written = clock] ELSE b : b \in born }
    /\ UNCHANGED <<clock, lastSimilar, connVars, dl, sanVars, pageVars, secVars, storeVars, searchVars, toolVars, fileVars>>

\* DELETE FROM documents (a single row, or the purge of index-docs)
StampDelete(ids) ==
    /\ \E r \in stamps : r.id \in ids
    /\ stamps' = { r \in stamps : r.id \notin ids }
    /\ born' = { b \in born : b.id \notin ids }
    /\ UNCHANGED <<clock, lastSimilar, connVars, dl, sanVars, pageVars, secVars, storeVars, searchVars, toolVars, fileVars>>

\* the package indexer's write of one file: INSERT OR REPLACE of a row of
\* type 'package-docs' with created_at = updated_at = now
StampUpsert(id) ==
    /\ stamps' = ReplaceStamps(stamps, id, "package-docs", clock)
    /\ born' = IF stamps' = stamps THEN born
               ELSE IF \E b \in born : b.id = id
                    THEN { IF b.id = id THEN [b EXCEPT !.written = clock] ELSE b : b \in born }
                    ELSE born \cup {[id |-> id, inserted |-> clock, written |-> clock]}
    /\ UNCHANGED <<clock, lastSimilar, connVars, dl, sanVars, pageVars, secVars, storeVars, searchVars, toolVars, fileVars>>

NextTime ==
    \/ Tick
    \/ \E id \in StampIds : StampInsert(id)
    \/ \E id \in StampIds : StampUpdate(id)
    \/ \E ids \in SUBSET StampIds : StampDelete(ids)
    \/ \E id \in StampIds : StampUpsert(id)

SpecTime == InitTime /\ [][NextTime]_vars

getDocument(docs, id) == { d \in docs : d.id = id }

\* the length of the word a title token stands for: "a" is a word of more
\* than three characters, the other tokens are shorter words
WordLength(word) == IF word = "a" THEN 4 ELSE 2

\* doc.title.split(/\s+/).filter(word => word.length > 3).slice(0, 3)
\* .join(' '): a title of the store is one word
Keywords(title) == IF WordLength(title) > 3 THEN <<title>> ELSE <<>>

\* a variant that keeps the source document among the results
KeepSource(results, documentId, limit) ==
    SubSeq(results, 1, Min(limit, Len(results)))

\* results.filter(r => r.id !== documentId).slice(0, limit)
WithoutSource(results, documentId, limit) ==
    LET others == SelectSeq(results, LAMBDA r : r.id # documentId)
    IN SubSeq(others, 1, Min(limit, Len(others)))

\* the body of the try block of findSimilar: the outcomes it can have;
\* fault is "lookup" when the SELECT of getDocument fails, "search" when the
\* statement of search fails
findSimilarBody(docs, ix, open, documentId, limit, fault) ==
    IF ~open \/ fault = "lookup" THEN { [outcome |-> "thrown", results |-> <<>>] }
    ELSE IF getDocument(docs, documentId) = {}
         THEN { [outcome |-> "returned", results |-> <<>>] }
         ELSE LET doc == CHOOSE d \in getDocument(docs, documentId) : TRUE
                  outs == search(docs, ix, open,
                                 [query |-> Keywords(doc.title),
                                  limit |-> limit + 1, offset |-> 0,
                                  type |-> doc.type,
                                  version |-> doc.unity_version,
                                  packageName |-> Undefined,
                                  packageVersion |-> Undefined],
                                 fault = "search")
              IN { IF out.outcome = "thrown"
                   THEN [outcome |-> "thrown", results |-> <<>>]
                   ELSE [outcome |-> "returned",
                         results |-> WithoutSource(out.results, documentId, limit)] :
                     out \in outs }

\* a variant of findSimilar without the catch block
findSimilarNoCatch(docs, ix, open, documentId, limit, fault) ==
    findSimilarBody(docs, ix, open, documentId, limit, fault)

\* findSimilar: catch (error) { ...; return []; }
findSimilar(docs, ix, open, documentId, limit, fault) ==
    { IF out.outcome = "thrown"
      THEN [outcome |-> "returned", results |-> <<>>]
      ELSE out :
        out \in findSimilarBody(docs, ix, open, documentId, limit, fault) }

\* the stores findSimilar runs on: documents that share a title word with
\* documents of the same and of other types, versions and packages
SimilarSeedRows ==
    << NewRow(DocId(DefaultVersion, "Manual/A.html"), DefaultVersion, "manual", "a", "7", Null, Null),
       NewRow(DocId("com.unity.inputsystem", "Manual/A.html"), DefaultVersion, "manual", "a", "7",
              "com.unity.inputsystem", "1.0"),
       NewRow(DocId(DefaultVersion, "ScriptReference/B.html"), DefaultVersion, "script-reference", "a", "7", Null, Null),
       NewRow(DocId("6000.0", "Manual/A.html"), "6000.0", "manual", "a", "7", Null, Null),
       NewRow(DocId("6000.0", "ScriptReference/B.html"), "6000.0", "script-reference", "b", "7", Null, Null) >>

SimilarStores ==
    { StoreAfterInserts({}, {}, SelectSeq(SimilarSeedRows, LAMBDA row : row \in chosen)) :
        chosen \in SUBSET { SimilarSeedRows[i] : i \in 1..Len(SimilarSeedRows) } }

SimilarIds == { SimilarSeedRows[i].id : i \in 1..Len(SimilarSeedRows) }

InitSimilar ==
    /\ SanIdle /\ PageIdle /\ SecIdle /\ ToolIdle /\ TimeIdle /\ ConnIdle
    /\ DownloadIdle /\ FileIdle
    /\ \E store \in SimilarStores : documents = store.documents /\ fts = store.fts
    /\ idx = NoIndexer /\ pkgStats = NoStats /\ lastRun = NoRun
    /\ dbOpen = FALSE
    /\ lastSearch = NoSearch
    /\ lastSimilar = NoCall

\* one call of findSimilar; lastSimilar keeps the call and what it gave the
\* caller until the caller is done with it
FindSimilar(documentId, limit, fault) ==
    /\ ~lastSimilar.called
    /\ \E out \in findSimilar(documents, fts, dbOpen, documentId, limit, fault) :
          lastSimilar' = [called |-> TRUE, documentId |-> documentId,
                          limit |-> limit, open |-> dbOpen, fault |-> fault,
                          outcome |-> out.outcome, results |-> out.results]
    /\ UNCHANGED <<timeVars, connVars, dl, storeVars, searchVars, sanVars, pageVars, secVars, toolVars, fileVars>>

FindSimilarDone ==
    /\ lastSimilar.called
    /\ lastSimilar' = NoCall
    /\ UNCHANGED <<timeVars, connVars, dl, storeVars, searchVars, sanVars, pageVars, secVars, toolVars, fileVars>>

NextSimilar ==
    \/ DbInitialize /\ ~lastSimilar.called
    \/ DbClose /\ ~lastSimilar.called
    \/ \E documentId \in SimilarIds, limit \in 0..MaxLimit,
          fault \in {"none", "lookup", "search"} :
           FindSimilar(documentId, limit, fault)
    \/ FindSimilarDone

SpecSimilar == InitSimilar /\ [][NextSimilar]_vars

\* the stored source document of the recorded call
SourceOfCall == getDocument(documents, lastSimilar.documentId)

\* ------------------------------------------------------------------------
\* C22: what findSimilar(documentId, limit) returns never holds the source
\* document, holds at most limit results, and every result is a stored
\* document of the type and the version of the source document.
C22_SimilarExcludesSourceSameScope ==
    lastSimilar.called =>
        /\ Len(lastSimilar.results) <= lastSimilar.limit
        /\ \A i \in 1..Len(lastSimilar.results) :
              LET r == lastSimilar.results[i]
              IN /\ r.id # lastSimilar.documentId
                 /\ \A doc \in SourceOfCall :
                       /\ r.type = doc.type
                       /\ DocumentOf(r).unity_version = doc.unity_version

\* a call returned a similar document while the store also held the source
\* and documents of another type and of another version with the same word
C22_Witness ==
    /\ lastSimilar.called
    /\ Len(lastSimilar.results) > 0
    /\ \E doc \in SourceOfCall :
          /\ \E d \in documents : d.title = doc.title /\ d.type # doc.type
          /\ \E d \in documents : d.title = doc.title /\ d.unity_version # doc.unity_version

\* ------------------------------------------------------------------------
\* C23: findSimilar never raises: when the source document is not stored,
\* when its title has no word longer than three characters, when the
\* connection is closed or the lookup or the search statement fails, the
\* call returns, and it returns the empty list.
C23_SimilarNeverRaises ==
    lastSimilar.called =>
        /\ lastSimilar.outcome = "returned"
        /\ ( \/ SourceOfCall = {}
             \/ \E doc \in SourceOfCall : Keywords(doc.title) = <<>>
             \/ ~lastSimilar.open
             \/ lastSimilar.fault # "none" )
           => lastSimilar.results = <<>>

\* calls that met each of the failures: a closed connection, a failing
\* statement on an open one with the source stored
C23_Witness ==
    /\ lastSimilar.called
    /\ lastSimilar.open
    /\ lastSimilar.fault = "search"
    /\ \E doc \in SourceOfCall : Keywords(doc.title) # <<>>

\* ------------------------------------------------------------------------
\* Migration and DatabaseConnection (database/schema.ts)
\* ------------------------------------------------------------------------
SCHEMA_VERSION == 1

\* Migration.getCurrentVersion: 0 without a schema_version table or without
\* a row in it, else MAX(version)
getCurrentVersion(sch) ==
    IF ~sch.versionTable \/ sch.versions = {} THEN 0 ELSE SetMax(sch.versions)

\* Migration.needsMigration
needsMigration(sch) == getCurrentVersion(sch) < SCHEMA_VERSION

\* migrateToV1: CREATE TABLE / TRIGGER IF NOT EXISTS ...
migrateToV1(sch) ==
    [ok |-> TRUE, schema |-> [sch EXCEPT !.versionTable = TRUE, !.tables = TRUE]]

\* migrateToV2: ALTER TABLE documents ADD COLUMN package_name, package_version;
\* SQLite refuses to add a column the table already has
migrateToV2(sch) ==
    IF sch.packageColumns THEN [ok |-> FALSE, schema |-> sch]
    ELSE [ok |-> TRUE, schema |-> [sch EXCEPT !.packageColumns = TRUE]]

\* Migration.runMigrations(fromVersion)
runMigrations(sch, fromVersion) ==
    LET v1 == IF fromVersion < 1 THEN migrateToV1(sch)
              ELSE [ok |-> TRUE, schema |-> sch]
    IN IF fromVersion < 2 THEN migrateToV2(v1.schema) ELSE v1

\* Migration.updateSchemaVersion: INSERT OR REPLACE INTO schema_version
updateSchemaVersion(sch, version) ==
    [sch EXCEPT !.versions = @ \cup {version}]

\* a variant of migrate that runs the migrations whatever version is recorded
migrateAlways(sch, fault) ==
    LET r == runMigrations(sch, 0)
    IN IF fault \/ ~r.ok THEN [ok |-> FALSE, schema |-> sch, ran |-> FALSE]
       ELSE [ok |-> TRUE, schema |-> updateSchemaVersion(r.schema, SCHEMA_VERSION),
             ran |-> TRUE]

\* Migration.migrate: one transaction; an error (fault: a statement of the
\* transaction fails) rolls it back and is thrown again
migrate(sch, fault) ==
    LET currentVersion == getCurrentVersion(sch)
    IN IF fault THEN [ok |-> FALSE, schema |-> sch, ran |-> FALSE]
       ELSE IF currentVersion < SCHEMA_VERSION
            THEN LET r == runMigrations(sch, currentVersion)
                 IN IF r.ok
                    THEN [ok |-> TRUE,
                          schema |-> updateSchemaVersion(r.schema, SCHEMA_VERSION),
                          ran |-> TRUE]
                    ELSE [ok |-> FALSE, schema |-> sch, ran |-> FALSE]
            ELSE [ok |-> TRUE, schema |-> sch, ran |-> FALSE]

\* where initialize can fail: ensureDir, new Database(...), a pragma, migrate
InitializeFaults == {"none", "ensureDir", "open", "pragma", "migrate"}

\* DatabaseConnection.initialize: what it returns or throws, this.db !== null
\* after it, and the database file after it
initialize(open, sch, fault) ==
    IF open THEN [outcome |-> "returned", open |-> TRUE, schema |-> sch]
    ELSE IF fault \in {"ensureDir", "open"}
         THEN [outcome |-> "thrown", open |-> FALSE, schema |-> sch]
         ELSE IF fault = "pragma"
              THEN [outcome |-> "thrown", open |-> TRUE, schema |-> sch]
              ELSE LET m == migrate(sch, fault = "migrate")
                   IN [outcome |-> IF m.ok THEN "returned" ELSE "thrown",
                       open |-> TRUE, schema |-> m.schema]

\* DatabaseConnection.getDatabase
getDatabase(open) ==
    IF open THEN [outcome |-> "returned", message |-> "none"]
    ELSE [outcome |-> "thrown", message |-> NotInitialized]

ConnCall(call, outcome, fault) ==
    [call |-> call, outcome |-> outcome, fault |-> fault,
     message |-> "none",
     openBefore |-> dbOpen, schemaBefore |-> schema,
     okSinceClose |-> connLog.okSinceClose, calls |-> connLog.calls + 1]

InitConn ==
    /\ SanIdle /\ PageIdle /\ SecIdle /\ StoreIdle /\ SearchIdle /\ ToolIdle
    /\ TimeIdle /\ SimilarIdle /\ DownloadIdle /\ FileIdle
    /\ schema = FreshSchema
    /\ connLog = NoConnCall

\* await DatabaseConnection.getInstance().initialize()
Initialize(fault) ==
    /\ connLog.calls < MaxCalls
    /\ LET r == initialize(dbOpen, schema, fault)
       IN /\ dbOpen' = r.open
          /\ schema' = r.schema
          /\ connLog' = [ConnCall("initialize", r.outcome, fault) EXCEPT
                            !.okSinceClose = @ \/ r.outcome = "returned"]
    /\ UNCHANGED <<lastSearch, timeVars, lastSimilar, dl, storeVars, sanVars, pageVars, secVars, toolVars, fileVars>>

\* DatabaseConnection.close
Close ==
    /\ connLog.calls < MaxCalls
    /\ dbOpen' = FALSE
    /\ connLog' = [ConnCall("close", "returned", "none") EXCEPT !.okSinceClose = FALSE]
    /\ UNCHANGED <<schema, lastSearch, timeVars, lastSimilar, dl, storeVars, sanVars, pageVars, secVars, toolVars, fileVars>>

\* DatabaseConnection.getDatabase, and prepare, exec, transaction, getStats
\* that start with it
GetDatabase ==
    /\ connLog.calls < MaxCalls
    /\ connLog' = [ConnCall("getDatabase", getDatabase(dbOpen).outcome, "none") EXCEPT
                      !.message = getDatabase(dbOpen).message]
    /\ UNCHANGED <<dbOpen, schema, lastSearch, timeVars, lastSimilar, dl, storeVars, sanVars, pageVars, secVars, toolVars, fileVars>>

\* new Migration(db).migrate() on the open connection (init-db main)
Migrate(fault) ==
    /\ connLog.calls < MaxCalls
    /\ dbOpen
    /\ LET m == migrate(schema, fault)
       IN /\ schema' = m.schema
          /\ connLog' = ConnCall("migrate", IF m.ok THEN "returned" ELSE "thrown",
                                  IF fault THEN "migrate" ELSE "none")
    /\ UNCHANGED <<dbOpen, lastSearch, timeVars, lastSimilar, dl, storeVars, sanVars, pageVars, secVars, toolVars, fileVars>>

NextConn ==
    \/ \E fault \in InitializeFaults : Initialize(fault)
    \/ Close
    \/ GetDatabase
    \/ \E fault \in BOOLEAN : Migrate(fault)

SpecConn == InitConn /\ [][NextConn]_vars

\* ------------------------------------------------------------------------
\* C24: isInitialized() is true exactly when an initialize() has returned
\* successfully since the last close(); getDatabase() throws 'Database not
\* initialized' exactly when the connection is not initialized; initialize()
\* on an initialized connection returns and changes nothing.
C24_InitializedExactlyAfterSuccess ==
    /\ dbOpen <=> connLog.okSinceClose
    /\ connLog.call = "getDatabase"
        => /\ connLog.outcome = "thrown" <=> ~connLog.openBefore
           /\ connLog.outcome = "thrown" => connLog.message = NotInitialized
    /\ (connLog.call = "initialize" /\ connLog.openBefore)
        => /\ connLog.outcome = "returned"
           /\ dbOpen
           /\ schema = connLog.schemaBefore

\* ------------------------------------------------------------------------
\* C25: after migrate() has succeeded (called directly, or by an initialize
\* that opened the database) the recorded schema version is SCHEMA_VERSION,
\* needsMigration() is false, and another migrate() succeeds, runs no
\* migration and leaves schema and recorded version as they are.
C25_MigrateReachesVersionOnce ==
    ( /\ connLog.call \in {"migrate", "initialize"}
      /\ connLog.outcome = "returned"
      /\ connLog.call = "initialize" => ~connLog.openBefore )
    => /\ getCurrentVersion(schema) = SCHEMA_VERSION
       /\ ~needsMigration(schema)
       /\ migrate(schema, FALSE) = [ok |-> TRUE, schema |-> schema, ran |-> FALSE]

\* migrate() has succeeded on a database that was already migrated
C25_Witness ==
    /\ connLog.call = "migrate"
    /\ connLog.outcome = "returned"
    /\ ~needsMigration(connLog.schemaBefore)
    /\ schema.packageColumns

\* ------------------------------------------------------------------------
\* C27: after initialize() has thrown, the connection is not initialized:
\* isInitialized() is false, getDatabase() throws, and an initialize() that
\* follows and meets no error runs the migration, so that the database has
\* its schema afterwards.
C27_FailedInitializeLeavesUninitialized ==
    (connLog.call = "initialize" /\ connLog.outcome = "thrown")
    => /\ ~dbOpen
       /\ getDatabase(dbOpen).outcome = "thrown"
       /\ ~needsMigration(initialize(dbOpen, schema, "none").schema)

\* ------------------------------------------------------------------------
\* NodeFetchDownloader.download and fetchWithTimeout (http/downloader.ts)
\* ------------------------------------------------------------------------
\* time is followed for one tick past the longest timeout
MaxTime == MaxTimeout + 1

Statuses == {200, 206, 404, 500}

\* !response.ok && response.status !== 206
IsHttpError(status) == ~(status >= 200 /\ status < 300) /\ status # 206

\* the catch block of download: the partial file is removed unless the
\* download is resumable, the error is thrown again
Rejected(d, error) ==
    [d EXCEPT !.pc = "rejected", !.error = error,
              !.partial = IF d.resumable THEN @ ELSE FALSE]

InitDownload ==
    /\ SanIdle /\ PageIdle /\ SecIdle /\ StoreIdle /\ SearchIdle /\ ToolIdle
    /\ TimeIdle /\ SimilarIdle /\ ConnIdle /\ FileIdle
    /\ dl = NoDownload

\* download(options) up to the call of fetch: a new AbortController, and
\* setTimeout(abort, timeout) in fetchWithTimeout
Download(timeout, resumable) ==
    /\ dl.pc \in {"idle", "resolved", "rejected"}
    /\ dl' = [NoDownload EXCEPT !.pc = "fetching", !.timeout = timeout,
                                !.resumable = resumable, !.timer = "armed",
                                !.partial = dl.partial /\ resumable]
    /\ UNCHANGED <<timeVars, lastSimilar, connVars, sanVars, pageVars, secVars, storeVars, searchVars, toolVars, fileVars>>

\* time passes while the download is pending; an armed timer fires before
\* time moves past its delay
DownloadTick ==
    /\ dl.pc \in {"fetching", "streaming"}
    /\ dl.elapsed < MaxTime
    /\ ~(dl.timer = "armed" /\ dl.elapsed >= dl.timeout)
    /\ dl' = [dl EXCEPT !.elapsed = @ + 1]
    /\ UNCHANGED <<timeVars, lastSimilar, connVars, sanVars, pageVars, secVars, storeVars, searchVars, toolVars, fileVars>>

\* the setTimeout callback: abortController.abort(); fetch rejects with an
\* AbortError, which fetchWithTimeout turns into 'Download timeout after
\* ...ms' and download throws again
TimerFires ==
    /\ dl.timer = "armed"
    /\ dl.elapsed >= dl.timeout
    /\ dl.pc = "fetching"
    /\ dl' = [Rejected(dl, "timeout") EXCEPT !.timer = "fired", !.aborted = TRUE]
    /\ UNCHANGED <<timeVars, lastSimilar, connVars, sanVars, pageVars, secVars, storeVars, searchVars, toolVars, fileVars>>

\* fetch resolves with the response headers: clearTimeout(timeoutId), then
\* the status check and createWriteStream(outputPath)
ResponseHeaders(status) ==
    /\ dl.pc = "fetching"
    /\ dl' = IF IsHttpError(status)
             THEN [Rejected(dl, "http") EXCEPT !.timer = "cleared"]
             ELSE [dl EXCEPT !.pc = "streaming", !.timer = "cleared",
                             !.partial = TRUE]
    /\ UNCHANGED <<timeVars, lastSimilar, connVars, sanVars, pageVars, secVars, storeVars, searchVars, toolVars, fileVars>>

\* fetch rejects on its own (connection refused, DNS)
FetchFails ==
    /\ dl.pc = "fetching"
    /\ dl' = [Rejected(dl, "network") EXCEPT !.timer = "cleared"]
    /\ UNCHANGED <<timeVars, lastSimilar, connVars, sanVars, pageVars, secVars, storeVars, searchVars, toolVars, fileVars>>

\* pipeline(response.body, writeStream): the server delivers a chunk
BodyChunk ==
    /\ dl.pc = "streaming"
    /\ dl.received < MaxChunks
    /\ dl' = [dl EXCEPT !.received = @ + 1]
    /\ UNCHANGED <<timeVars, lastSimilar, connVars, sanVars, pageVars, secVars, storeVars, searchVars, toolVars, fileVars>>

\* the body ends: pipeline resolves and download returns its result
BodyEnds ==
    /\ dl.pc = "streaming"
    /\ dl' = [dl EXCEPT !.pc = "resolved"]
    /\ UNCHANGED <<timeVars, lastSimilar, connVars, sanVars, pageVars, secVars, storeVars, searchVars, toolVars, fileVars>>

\* the connection breaks while the body is read: pipeline rejects
BodyFails ==
    /\ dl.pc = "streaming"
    /\ dl' = Rejected(dl, "network")
    /\ UNCHANGED <<timeVars, lastSimilar, connVars, sanVars, pageVars, secVars, storeVars, searchVars, toolVars, fileVars>>

\* cancel(): abortController.abort() by the caller
Cancel ==
    /\ dl.pc \in {"fetching", "streaming"}
    /\ dl' = [Rejected(dl, IF dl.pc = "fetching" THEN "timeout" ELSE "abort")
                 EXCEPT !.aborted = TRUE,
                        !.timer = IF dl.pc = "fetching" THEN "cleared" ELSE @]
    /\ UNCHANGED <<timeVars, lastSimilar, connVars, sanVars, pageVars, secVars, storeVars, searchVars, toolVars, fileVars>>

NextDownload ==
    \/ \E timeout \in 1..MaxTimeout, resumable \in BOOLEAN : Download(timeout, resumable)
    \/ DownloadTick
    \/ TimerFires
    \/ \E status \in Statuses : ResponseHeaders(status)
    \/ FetchFails
    \/ BodyChunk
    \/ BodyEnds
    \/ BodyFails
    \/ Cancel

SpecDownload == InitDownload /\ [][NextDownload]_vars

\* ------------------------------------------------------------------------
\* C26: a download given a timeout does not stay pending past it: while
\* download() has neither resolved nor rejected, before or after the
\* response headers, no more time than the timeout has passed; and a
\* download that its timer aborted has rejected with the timeout error.
C26_NoPendingPastTimeout ==
    /\ dl.pc \in {"fetching", "streaming"} => dl.elapsed <= dl.timeout
    /\ dl.timer = "fired" => dl.pc = "rejected" /\ dl.error = "timeout"

\* ------------------------------------------------------------------------
\* Search results read back by path (search_unity_docs, then read_unity_doc,
\* list_unity_doc_sections or read_unity_doc_section)
\* ------------------------------------------------------------------------

\* the recorded call is one search_unity_docs makes: query, limit and type
\* from the arguments, no version, package or offset
IsToolSearch ==
    /\ lastSearch.called
    /\ lastSearch.outcome = "returned"
    /\ lastSearch.options.version = Undefined
    /\ lastSearch.options.packageName = Undefined
    /\ lastSearch.options.packageVersion = Undefined
    /\ lastSearch.options.offset = 0

\* 'Path: ${result.filePath}' of a result, as the client passes it back
ResultPath(result) == FilePath(DocumentOf(result))

MaxEntries == 2

\* an entry of the archive: its type, what options.filter answers for it,
\* whether a file is already at its output path, and whether its data
\* exceeds what the entry stream buffers unread (the parser then waits for
\* a reader before it goes on)
ZipEntryKinds ==
    [type : {"Directory"}, passes : BOOLEAN, present : {FALSE}, large : {FALSE}]
        \cup [type : {"File"}, passes : BOOLEAN, present : BOOLEAN, large : BOOLEAN]

Archives ==
    UNION { [1..n -> ZipEntryKinds] : n \in 0..MaxEntries }

\* resolve() and reject(): a promise settles once
Resolve(z) == IF z.promise = "pending" THEN [z EXCEPT !.promise = "resolved"] ELSE z
Reject(z) == IF z.promise = "pending" THEN [z EXCEPT !.promise = "rejected"] ELSE z

\* checkComplete
checkComplete(z) ==
    IF z.parsingComplete /\ z.pendingWrites = 0 THEN Resolve(z) ELSE z

\* pendingWrites++ ; createWriteStream ; entry.pipe(writeStream)
StartWrite(z, i) ==
    [z EXCEPT !.st[i] = "writing", !.pendingWrites = @ + 1]

\* the parser holds the data of a large entry until something reads it
ParserWaits ==
    \E i \in 1..Len(zip.entries) :
        /\ zip.entries[i].large
        /\ zip.st[i] \in {"ensuringDir", "checking"}

InitZip ==
    /\ SanIdle /\ PageIdle /\ SecIdle /\ StoreIdle /\ SearchIdle /\ ToolIdle
    /\ TimeIdle /\ SimilarIdle /\ ConnIdle /\ DownloadIdle /\ PackageIdle
    /\ zip = NoZip

\* extractAll up to the creation of the promise: await ensureDir(outputDir),
\* then the read stream is piped into the parser
ExtractAll(overwrite, entries, fault) ==
    /\ zip.promise = "none"
    /\ zip' = IF fault
              THEN [zip EXCEPT !.promise = "rejected", !.overwrite = overwrite,
                               !.entries = entries,
                               !.st = [i \in 1..Len(entries) |-> "unparsed"]]
              ELSE [zip EXCEPT !.promise = "pending", !.parser = "parsing",
                               !.overwrite = overwrite, !.entries = entries,
                               !.st = [i \in 1..Len(entries) |-> "unparsed"]]
    /\ UNCHANGED <<pkgDl, timeVars, lastSimilar, connVars, dl, sanVars, pageVars, secVars, storeVars, searchVars, toolVars>>

\* .on('entry'): the filter, then ensureDir is started for the entry
ParserEntry ==
    /\ zip.parser = "parsing"
    /\ zip.next <= Len(zip.entries)
    /\ ~ParserWaits
    /\ LET i == zip.next
       IN zip' = IF ~zip.entries[i].passes
                 THEN [zip EXCEPT !.st[i] = "filtered", !.skippedCount = @ + 1,
                                  !.next = @ + 1]
                 ELSE [zip EXCEPT !.st[i] = "ensuringDir", !.next = @ + 1]
    /\ UNCHANGED <<pkgDl, timeVars, lastSimilar, connVars, dl, sanVars, pageVars, secVars, storeVars, searchVars, toolVars>>

\* .on('close')
ParserClose ==
    /\ zip.parser = "parsing"
    /\ zip.next > Len(zip.entries)
    /\ ~ParserWaits
    /\ zip' = checkComplete([zip EXCEPT !.parser = "closed", !.parsingComplete = TRUE])
    /\ UNCHANGED <<pkgDl, timeVars, lastSimilar, connVars, dl, sanVars, pageVars, secVars, storeVars, searchVars, toolVars>>

\* .on('error', reject) of the parser
ParserError ==
    /\ zip.parser = "parsing"
    /\ zip' = Reject([zip EXCEPT !.parser = "failed"])
    /\ UNCHANGED <<pkgDl, timeVars, lastSimilar, connVars, dl, sanVars, pageVars, secVars, storeVars, searchVars, toolVars>>

\* ensureDir(...) of entry i settles: .catch(reject) when it failed; a
\* directory entry is drained; a file entry is written at once when
\* overwrite is set, else exists(outputPath) is awaited first
EnsureDirDone(i, ok) ==
    /\ i \in 1..Len(zip.entries)
    /\ zip.st[i] = "ensuringDir"
    /\ zip' = IF ~ok THEN Reject([zip EXCEPT !.st[i] = "failed"])
              ELSE IF zip.entries[i].type = "Directory"
              THEN [zip EXCEPT !.st[i] = "drained"]
              ELSE IF zip.overwrite THEN StartWrite(zip, i)
              ELSE [zip EXCEPT !.st[i] = "checking"]
    /\ UNCHANGED <<pkgDl, timeVars, lastSimilar, connVars, dl, sanVars, pageVars, secVars, storeVars, searchVars, toolVars>>

\* await exists(outputPath) of entry i settles
ExistsDone(i) ==
    /\ i \in 1..Len(zip.entries)
    /\ zip.st[i] = "checking"
    /\ zip' = IF zip.entries[i].present
              THEN [zip EXCEPT !.st[i] = "skipped", !.skippedCount = @ + 1]
              ELSE StartWrite(zip, i)
    /\ UNCHANGED <<pkgDl, timeVars, lastSimilar, connVars, dl, sanVars, pageVars, secVars, storeVars, searchVars, toolVars>>

\* 'finish' of the write stream of entry i
WriteFinish(i) ==
    /\ i \in 1..Len(zip.entries)
    /\ zip.st[i] = "writing"
    /\ zip' = checkComplete([zip EXCEPT !.st[i] = "written",
                                        !.extractedCount = @ + 1,
                                        !.pendingWrites = @ - 1])
    /\ UNCHANGED <<pkgDl, timeVars, lastSimilar, connVars, dl, sanVars, pageVars, secVars, storeVars, searchVars, toolVars>>

\* 'error' of the write stream of entry i
WriteError(i) ==
    /\ i \in 1..Len(zip.entries)
    /\ zip.st[i] = "writing"
    /\ zip' = Reject([zip EXCEPT !.st[i] = "writeFailed", !.pendingWrites = @ - 1])
    /\ UNCHANGED <<pkgDl, timeVars, lastSimilar, connVars, dl, sanVars, pageVars, secVars, storeVars, searchVars, toolVars>>

NextZip ==
    \/ \E overwrite \in BOOLEAN, entries \in Archives, fault \in BOOLEAN :
           ExtractAll(overwrite, entries, fault)
    \/ ParserEntry
    \/ ParserClose
    \/ ParserError
    \/ \E i \in 1..MaxEntries, ok \in BOOLEAN : EnsureDirDone(i, ok)
    \/ \E i \in 1..MaxEntries : ExistsDone(i)
    \/ \E i \in 1..MaxEntries : WriteFinish(i)
    \/ \E i \in 1..MaxEntries : WriteError(i)

SpecZip == InitZip /\ [][NextZip]_vars

\* entry i is one extractAll has to write: a file that passes the filter
\* and is not skipped as existing
ToBeWritten(i) ==
    /\ zip.entries[i].type = "File"
    /\ zip.entries[i].passes
    /\ zip.overwrite \/ ~zip.entries[i].present

\* C29: when the promise of extractAll is resolved, every entry that was
\* neither filtered out nor skipped has been completely written, in every
\* interleaving of the parser's events with the directory creations, the
\* existence checks and the writes.
C29_ResolvedAfterAllWritten ==
    zip.promise = "resolved" =>
        \A i \in 1..Len(zip.entries) : ToBeWritten(i) => zip.st[i] = "written"

\* ------------------------------------------------------------------------
\* PackageDocumentationDownloader: downloadPackageDocumentation and
\* getPackageDocumentationPath on the packages directory
\* ------------------------------------------------------------------------

MaxPackageCalls == 4

\* the package names a caller passes: a known package and an unknown one
RequestedPackages == Packages \cup {"com.unity.nothing"}

\* KNOWN_PACKAGES[packageName]
getPackageInfo(packageName) ==
    IF packageName \in Packages THEN packageName ELSE Null

\* existsSync(extractPath)
ExtractPathExists(p) == p.extractPath # "none"

\* getPackageDocumentationPath(packageName), with the version of the package
getPackageDocumentationPath(p, packageName) ==
    IF getPackageInfo(packageName) = Null THEN Null
    ELSE IF ExtractPathExists(p) THEN "extractPath"
    ELSE Null

\* the call ends: what it returned or threw
PackageReturned(p) ==
    [p EXCEPT !.pc = "idle", !.outcome = "returned", !.error = "none",
              !.failedLast = FALSE]

PackageThrown(p, error) ==
    [p EXCEPT !.pc = "idle", !.outcome = "thrown", !.error = error,
              !.failedLast = (p.packageName \in Packages)]

InitPackage ==
    /\ SanIdle /\ PageIdle /\ SecIdle /\ StoreIdle /\ SearchIdle /\ ToolIdle
    /\ TimeIdle /\ SimilarIdle /\ ConnIdle /\ DownloadIdle /\ ZipIdle
    /\ pkgDl = NoPackageDownload

\* downloadPackageDocumentation up to the fetch: the unknown package, the
\* directory that is already there
DownloadPackageDocumentation(packageName) ==
    /\ pkgDl.pc = "idle"
    /\ pkgDl.calls < MaxPackageCalls
    /\ LET p == [pkgDl EXCEPT !.packageName = packageName, !.calls = @ + 1]
       IN pkgDl' = IF getPackageInfo(packageName) = Null
                   THEN PackageThrown(p, "Unknown package")
                   ELSE IF ExtractPathExists(p) THEN PackageReturned(p)
                   ELSE [p EXCEPT !.pc = "fetching", !.fetches = @ + 1,
                                  !.outcome = "none", !.error = "none"]
    /\ UNCHANGED <<zip, timeVars, lastSimilar, connVars, dl, sanVars, pageVars, secVars, storeVars, searchVars, toolVars>>

\* await fetch(downloadUrl) settles; on a response that is ok the package
\* directory is made and the ZIP file is opened for writing
PackageFetchDone(ok) ==
    /\ pkgDl.pc = "fetching"
    /\ pkgDl' = IF ~ok THEN PackageThrown(pkgDl, "Failed to download")
                ELSE [pkgDl EXCEPT !.pc = "saving", !.packageDir = TRUE,
                                   !.zipFile = "partial"]
    /\ UNCHANGED <<zip, timeVars, lastSimilar, connVars, dl, sanVars, pageVars, secVars, storeVars, searchVars, toolVars>>

\* the pipeline into the ZIP file settles; when it was written
\* mkdirSync(extractPath) runs and the extraction starts
PackageSaveDone(ok) ==
    /\ pkgDl.pc = "saving"
    /\ pkgDl' = IF ~ok THEN PackageThrown(pkgDl, "write failed")
                ELSE [pkgDl EXCEPT !.pc = "extracting", !.zipFile = "whole",
                                   !.extractPath = "partial"]
    /\ UNCHANGED <<zip, timeVars, lastSimilar, connVars, dl, sanVars, pageVars, secVars, storeVars, searchVars, toolVars>>

\* the pipeline into Extract({path: extractPath}) settles; after a complete
\* extraction the ZIP file is unlinked
PackageExtractDone(ok) ==
    /\ pkgDl.pc = "extracting"
    /\ pkgDl' = IF ~ok THEN PackageThrown(pkgDl, "extraction failed")
                ELSE PackageReturned([pkgDl EXCEPT !.extractPath = "whole",
                                                   !.zipFile = "none"])
    /\ UNCHANGED <<zip, timeVars, lastSimilar, connVars, dl, sanVars, pageVars, secVars, storeVars, searchVars, toolVars>>

\* a caller asks for the path of a package (the already-downloaded check of
\* the download_unity_package_docs tool)
GetPackageDocumentationPath(packageName) ==
    /\ pkgDl.pc = "idle"
    /\ pkgDl.calls < MaxPackageCalls
    /\ pkgDl' = [pkgDl EXCEPT !.calls = @ + 1,
                              !.reported = getPackageDocumentationPath(pkgDl, packageName)]
    /\ UNCHANGED <<zip, timeVars, lastSimilar, connVars, dl, sanVars, pageVars, secVars, storeVars, searchVars, toolVars>>

NextPackage ==
    \/ \E packageName \in RequestedPackages : DownloadPackageDocumentation(packageName)
    \/ \E ok \in BOOLEAN : PackageFetchDone(ok)
    \/ \E ok \in BOOLEAN : PackageSaveDone(ok)
    \/ \E ok \in BOOLEAN : PackageExtractDone(ok)
    \/ \E packageName \in RequestedPackages : GetPackageDocumentationPath(packageName)

SpecPackage == InitPackage /\ [][NextPackage]_vars

\* C30: after a download of a known package has failed, the package is not
\* reported as downloaded (getPackageDocumentationPath returns null for it),
\* and a download call returns a path only for a directory whose extraction
\* was completed, so a later attempt after a failure downloads again.
C30_FailedDownloadNotReported ==
    /\ (pkgDl.pc = "idle" /\ pkgDl.failedLast) =>
           \A packageName \in Packages :
               getPackageDocumentationPath(pkgDl, packageName) = Null
    /\ (pkgDl.pc = "idle" /\ pkgDl.outcome = "returned") =>
           pkgDl.extractPath = "whole"

Init == InitStore
Next == NextStore
Spec == Init /\ [][Next]_vars
====
